---- MODULE Spec2Model ----
(***************************************************************************)
(* Model of the Edraak course pipeline of sushi-chef-edraak-courses:       *)
(*   libedx.py     reference resolver, tree builder, cached                *)
(*   sushichef.py  classifier / pruner (clean_subtree) and its helpers,    *)
(*                 question parser, transformer (transform_tree) and       *)
(*                 flattening                                              *)
(*                                                                         *)
(* Python dicts are functions with a string domain; a Python string is a   *)
(* sequence of word tokens, so that `x in title` is a contiguous           *)
(* sub-sequence test.  An operation that can raise returns                 *)
(*   [ok |-> TRUE, val |-> v]   or   [ok |-> FALSE, error |-> e].          *)
(***************************************************************************)
EXTENDS Integers, Sequences, FiniteSets, TLC

VARIABLES
    pc,             \* position of the run
    coursedir,      \* the course directory: path -> parsed file content
    course_data,    \* the live tree object (or the node under operation)
    original_tree,  \* the tree as extracted (originaltrees/<id>.json)
    clean_tree,     \* the tree after the last clean (cleantrees/<id>.json)
    vertical_type,  \* last result of guess_vertical_type
    error,          \* the exception that ended the run, or "none"
    transformed_tree, \* the result of the transformer-side operation
    cache           \* the shelve behind libedx.cached, its clock and call log

vars == <<pc, coursedir, course_data, original_tree, clean_tree, vertical_type, error,
          transformed_tree, cache>>

----------------------------------------------------------------------------
(* Results and dicts *)

Ok(v) == [ok |-> TRUE, val |-> v]

Err(e) == [ok |-> FALSE, error |-> e]

\* an exception of the first operation leaves the caller; otherwise the
\* caller goes on with its value
Then(r, Rest(_)) == IF r.ok THEN Rest(r.val) ELSE r

NoTree == [kind |-> "<none>"]

NoType == "<not classified>"

\* the cache file before anything was stored; keys are argument strings.
\* store is the shelf, now the clock, count the wrapper calls so far, calls
\* the arguments the wrapped function was called with, key and result the
\* last wrapper call
NoCache ==
    [store |-> [k \in {} |-> 0], now |-> 0, count |-> 0, calls |-> <<>>, key |-> "",
     result |-> <<>>]

\* dict.update(e): keys of e win
DictUpdate(d, e) == e @@ d

\* d[key] = value
DictSet(d, key, value) == (key :> value) @@ d

\* del d[key]
DictDel(d, key) == [k \in (DOMAIN d) \ {key} |-> d[k]]

\* `needle in haystack` for Python strings (token sequences)
StrContains(needle, haystack) ==
    \E i \in 0..(Len(haystack) - Len(needle)) :
        \A j \in 1..Len(needle) : haystack[i + j] = needle[j]

\* list.extend over a list of lists
RECURSIVE ConcatAll(_)
ConcatAll(seqs) == IF seqs = <<>> THEN <<>> ELSE seqs[1] \o ConcatAll(Tail(seqs))

----------------------------------------------------------------------------
(* libedx.py: reference resolver *)

\* A parsed file is the sequence of its top-level elements; an element is
\*   [name, attrs (dict), text (tokens), children (elements)]
\* and a text node between elements has the name TextNode.

TextNode == "#text"

PathOf(kind, name, ext) == <<kind, name, ext>>

\* os.path.exists
PathExists(dir, path) == path \in DOMAIN dir

\* the reference parse_xml_file emits for one child element
ChildRef(child) ==
    IF Cardinality(DOMAIN child.attrs) # 1
    THEN Err("AssertionError")
    ELSE IF child.name = "wiki"
         THEN IF "slug" \in DOMAIN child.attrs
              THEN Ok([kind |-> "wiki", slug |-> child.attrs["slug"]])
              ELSE Err("KeyError")
         ELSE IF "url_name" \notin DOMAIN child.attrs
              THEN Err("KeyError")
              ELSE IF child.name = "html"
                   THEN Ok([kind |-> "html", url_name |-> child.attrs["url_name"],
                            ext |-> "html"])
                   ELSE Ok([kind |-> child.name, url_name |-> child.attrs["url_name"]])

\* the loop over doc_root.children; text nodes are skipped
RECURSIVE ChildRefs(_, _, _)
ChildRefs(els, i, acc) ==
    IF i > Len(els) THEN Ok(acc)
    ELSE IF els[i].name = TextNode THEN ChildRefs(els, i + 1, acc)
    ELSE LET r == ChildRef(els[i])
         IN  IF r.ok
             THEN ChildRefs(els, i + 1, Append(acc, r.val))
             ELSE r

parse_xml_file(dir, kind, name, ext) ==
    LET path == PathOf(kind, name, ext)
    IN  IF ~PathExists(dir, path) THEN Err("ValueError: XML file not found")
        ELSE LET doc == dir[path]
             IN  IF Len(doc) # 1 THEN Err("AssertionError")
                 ELSE LET doc_root == doc[1]
                          data == DictUpdate([kind |-> doc_root.name, id |-> name,
                                              children |-> <<>>], doc_root.attrs)
                          refs == ChildRefs(doc_root.children, 1, <<>>)
                      IN  IF refs.ok
                          THEN Ok(DictSet(data, "children", refs.val))
                          ELSE refs

parse_html_file(dir, kind, name, ext) ==
    LET path == PathOf(kind, name, ext)
    IN  IF ~PathExists(dir, path) THEN Err("ValueError: HTML file not found")
        ELSE Ok([kind |-> kind, url_name |-> name, content |-> dir[path],
                 children |-> <<>>])

\* faulty variant: a missing video file is skipped with an empty content
parse_video_file_lenient(dir, kind, name) ==
    LET path == PathOf(kind, name, "xml")
    IN  Ok([kind |-> kind, url_name |-> name,
            content |-> IF PathExists(dir, path) THEN dir[path] ELSE <<>>,
            children |-> <<>>])

parse_video_file(dir, kind, name) ==
    LET path == PathOf(kind, name, "xml")
    IN  IF ~PathExists(dir, path) THEN Err("ValueError: Video XML file not found")
        ELSE Ok([kind |-> kind, url_name |-> name, content |-> dir[path],
                 children |-> <<>>])

parse_problem_file(dir, kind, name, ext) ==
    LET path == PathOf(kind, name, ext)
    IN  IF ~PathExists(dir, path) THEN Err("ValueError: HTML file not found")
        ELSE Ok([kind |-> kind, url_name |-> name, children |-> <<>>,
                 content |-> dir[path]])

----------------------------------------------------------------------------
(* libedx.py: tree builder *)

\* The number of nested parse_xml_file_refusive calls the interpreter's call
\* stack has room for.  The builder keeps no depth counter and no visited
\* set; the only thing that ends a chain of nested calls that the files do
\* not end is the interpreter, which raises RecursionError.
RecursionLimit == 6

RECURSIVE parse_xml_file_refusive(_, _, _, _, _)
RECURSIVE ResolveChildren(_, _, _, _, _)

\* faulty variant: the resolved child is inserted at the front of new_children
ResolveChildren_prepend(dir, refs, i, new_children, frames) ==
    IF i > Len(refs) THEN Ok(new_children)
    ELSE LET child == refs[i]
             r == IF child["kind"] = "wiki" THEN Ok(child)
                  ELSE IF child["kind"] = "html"
                       THEN parse_html_file(dir, child["kind"], child["url_name"], "html")
                  ELSE IF child["kind"] = "video"
                       THEN parse_video_file(dir, child["kind"], child["url_name"])
                  ELSE IF child["kind"] = "problem"
                       THEN parse_problem_file(dir, child["kind"], child["url_name"], "xml")
                  ELSE parse_xml_file_refusive(dir, child["kind"], child["url_name"], "xml",
                                               frames + 1)
         IN  IF r.ok
             THEN ResolveChildren(dir, refs, i + 1, <<r.val>> \o new_children, frames)
             ELSE r

\* the loop over root['children'] of parse_xml_file_refusive, run in the
\* call that is the frames-th nested one
\* (a loaded problem is a non-empty dict, so `if problemdata:` always holds)
ResolveChildren(dir, refs, i, new_children, frames) ==
    IF i > Len(refs) THEN Ok(new_children)
    ELSE LET child == refs[i]
             child_kind == child["kind"]
             r == IF child_kind = "wiki" THEN Ok(child)
                  ELSE IF child_kind = "html"
                       THEN parse_html_file(dir, child["kind"], child["url_name"], "html")
                  ELSE IF child_kind = "video"
                       THEN parse_video_file(dir, child["kind"], child["url_name"])
                  ELSE IF child_kind = "problem"
                       THEN parse_problem_file(dir, child["kind"], child["url_name"], "xml")
                  ELSE parse_xml_file_refusive(dir, child_kind, child["url_name"], "xml",
                                               frames + 1)
         IN  IF r.ok
             THEN ResolveChildren(dir, refs, i + 1, Append(new_children, r.val), frames)
             ELSE r

\* frames: how many calls of parse_xml_file_refusive are on the call stack,
\* this one included
parse_xml_file_refusive(dir, kind, name, ext, frames) ==
    IF frames > RecursionLimit THEN Err("RecursionError")
    ELSE
    LET root == parse_xml_file(dir, kind, name, ext)
    IN  IF ~root.ok THEN root
        ELSE LET new_children == ResolveChildren(dir, root.val["children"], 1, <<>>, frames)
             IN  IF new_children.ok
                 THEN Ok(DictSet(root.val, "children", new_children.val))
                 ELSE new_children

\* kind=None: the flat file {coursedir}/course.xml
NoKind == ""

\* faulty variant: the body file's attributes win over the flat file's
extract_course_tree_body_wins(dir) ==
    LET recusivedata == parse_xml_file_refusive(dir, "course", "course", "xml", 1)
    IN  IF ~recusivedata.ok THEN recusivedata
        ELSE LET flatdata == parse_xml_file_refusive(dir, NoKind, "course", "xml", 1)
             IN  IF ~flatdata.ok THEN flatdata
                 ELSE Ok(DictUpdate(DictDel(flatdata.val, "children"), recusivedata.val))

extract_course_tree(dir) ==
    LET recusivedata == parse_xml_file_refusive(dir, "course", "course", "xml", 1)
    IN  IF ~recusivedata.ok THEN recusivedata
        ELSE LET flatdata == parse_xml_file_refusive(dir, NoKind, "course", "xml", 1)
             IN  IF ~flatdata.ok THEN flatdata
                 ELSE Ok(DictUpdate(recusivedata.val, DictDel(flatdata.val, "children")))

----------------------------------------------------------------------------
(* sushichef.py: configured strings.  Each Arabic phrase is written as the   *)
(* sequence of its words (glossed), so substring tests keep their meaning.  *)

SKIP_KINDS == {"wiki"}

EDRAAK_STRINGS ==
    [learning_objectives |-> {<<"al-ahdaf_hamza", "al-taalimia">>,
                              <<"al-ahdaf", "al-taalimia">>},
     knowledge_check     |-> {<<"al-tahaqquq", "min", "al-maarifa">>},
     course_plan         |-> {<<"khutta", "al-masaq">>},
     downloadable_resources |-> <<"Downloadable", "Resources">>,
     downloadable_resources_description |->
         <<"Contains", "various", "documents", "and", "resources">>]

TITLES_TO_DROP ==
    {<<"al-tasjil", "fi", "al-masaq">>,
     <<"kayfiyat", "istikhdam", "al-minassa">>,
     <<"tawdih", "al-ayqunat">>,
     <<"istikhdam", "al-ala", "al-hasiba">>,
     <<"muhaki", "al-ikhtibar">>,
     <<"kayfiyat", "isdar", "al-shahada">>,
     <<"al-inha", "min", "al-masaq">>,
     <<"istibyan_hamza", "al-tasjil", "fi", "al-masaq">>,
     <<"tabiuna", "ala", "mawaqi", "al-tawasul", "al-ijtimai">>,
     <<"istibyan_hamza", "al-intiha", "min", "al-masaq">>,
     <<"istibyan_hamza", "inha", "al-masaq">>,
     <<"istibyan", "nihayat", "al-masaq">>,
     <<"mufajaat", "al-masaq">>}

EDRAAK_DROP_ICONS ==
    {"/static/lightbulb.jpg", "/static/bald22.jpg", "/static/mic.png",
     "/static/exam.jpg", "/static/Week1-Progress.png", "/static/Week2-Progress.png",
     "/static/Week3-Progress.png", "/static/FirstAid-Instructor-Video.png",
     "/static/FirstAid-Instructor-question2.png",
     "/static/FirstAid-Instructor-discussion.png", "/static/rsz_swift_logo_rgb.jpg"}

DEBUG_MODE == TRUE

----------------------------------------------------------------------------
(* markup queries (BeautifulSoup) *)

EmptyDict == [k \in {} |-> ""]

\* a markup element: tag name, attributes, own text, child elements
El(name, attrs, text, children) ==
    [name |-> name, attrs |-> attrs, text |-> text, children |-> children]

\* all elements below `els`, in document order
RECURSIVE Descendants(_)
Descendants(els) ==
    IF els = <<>> THEN <<>>
    ELSE <<els[1]>> \o Descendants(els[1].children) \o Descendants(Tail(els))

\* doc.find_all(name)
FindAll(els, name) == SelectSeq(Descendants(els), LAMBDA e : e.name = name)

\* doc.find(name, {key: value}); <<>> stands for None
FindWithAttr(els, name, key, value) ==
    SelectSeq(Descendants(els),
              LAMBDA e : e.name = name /\ key \in DOMAIN e.attrs /\ e.attrs[key] = value)

----------------------------------------------------------------------------
(* sushichef.py: process_video *)

\* faulty variant: the source element is looked for before the youtube profile
process_video_source_first(video) ==
    LET doc == video["content"]
        encoded_video == FindWithAttr(doc, "encoded_video", "profile", "youtube")
        video_source == FindAll(doc, "source")
        video_el == FindAll(doc, "video")
    IN  IF video_source # <<>>
        THEN IF "src" \in DOMAIN video_source[1].attrs
             THEN Ok(DictSet(video, "path", video_source[1].attrs["src"]))
             ELSE Err("KeyError")
        ELSE IF encoded_video # <<>>
        THEN IF "url" \in DOMAIN encoded_video[1].attrs
             THEN Ok(DictSet(video, "youtube_id", encoded_video[1].attrs["url"]))
             ELSE Err("KeyError")
        ELSE IF /\ video_el # <<>>
                /\ "youtube_id_1_0" \in DOMAIN video_el[1].attrs
                /\ video_el[1].attrs["youtube_id_1_0"] # ""
        THEN Ok(DictSet(video, "youtube_id", video_el[1].attrs["youtube_id_1_0"]))
        ELSE Err("ValueError: Unrecognized video format encountered")

process_video(video) ==
    LET doc == video["content"]
        encoded_video == FindWithAttr(doc, "encoded_video", "profile", "youtube")
        video_source == FindAll(doc, "source")
        video_el == FindAll(doc, "video")
    IN  IF encoded_video # <<>>
        THEN IF "url" \in DOMAIN encoded_video[1].attrs
             THEN Ok(DictSet(video, "youtube_id", encoded_video[1].attrs["url"]))
             ELSE Err("KeyError")
        ELSE IF video_source # <<>>
        THEN IF "src" \in DOMAIN video_source[1].attrs
             THEN Ok(DictSet(video, "path", video_source[1].attrs["src"]))
             ELSE Err("KeyError")
        ELSE IF /\ video_el # <<>>
                /\ "youtube_id_1_0" \in DOMAIN video_el[1].attrs
                /\ video_el[1].attrs["youtube_id_1_0"] # ""
        THEN Ok(DictSet(video, "youtube_id", video_el[1].attrs["youtube_id_1_0"]))
        ELSE Err("ValueError: Unrecognized video format encountered")

----------------------------------------------------------------------------
(* sushichef.py: downloadable resources of an html item *)

\* An href is <<prefix, stem, dotext>>, e.g. <<"/static", "my_file", ".pdf">>;
\* a static asset is a path of the course directory of the same shape.

Unbound == <<"<unbound local>">>

\* str.replace('_', ' ')
ReplaceUnderscores(path) ==
    [i \in DOMAIN path |-> IF path[i] = "my_file" THEN "my file" ELSE path[i]]

\* os.path.splitext(filename)[1][1:].lower()
ExtOf(href) ==
    LET dotext == href[Len(href)]
    IN  IF dotext \in {".pdf", ".PDF"} THEN "pdf"
        ELSE IF dotext = ".docx" THEN "docx"
        ELSE IF dotext = ".exe" THEN "exe"
        ELSE ""

\* the value of the local `relhref` after the if/else on href.startswith('/static')
RelHref(dir, href, relhref_before) ==
    IF Len(href) > 0 /\ href[1] = "/static"
    THEN IF PathExists(dir, href) THEN href ELSE ReplaceUnderscores(href)
    ELSE relhref_before

ResourceOf(el, href, relhref, title) ==
    [relhref |-> relhref, ext |-> ExtOf(href), filename |-> Tail(href),
     title |-> title, link_html |-> el]

\* CASE B: the loop over doc.find_all('a')
RECURSIVE LinkResources(_, _, _, _, _)
LinkResources(dir, links, i, relhref_before, resources) ==
    IF i > Len(links) THEN Ok(resources)
    ELSE LET link == links[i]
         IN  IF "href" \notin DOMAIN link.attrs THEN Err("KeyError")
             ELSE LET href == link.attrs["href"]
                      relhref == RelHref(dir, href, relhref_before)
                  IN  IF relhref = Unbound THEN Err("UnboundLocalError")
                      ELSE LinkResources(dir, links, i + 1, relhref,
                               Append(resources, ResourceOf(link, href, relhref, link.text)))

extract_downloadable_resouces_from_html_item(item, dir) ==
    IF item["kind"] # "html" THEN Err("AssertionError")
    ELSE IF "content" \notin DOMAIN item THEN Err("KeyError")
    ELSE LET doc == item["content"]
             iframe == FindAll(doc, "iframe")
         IN  IF iframe # <<>>
             THEN IF "src" \notin DOMAIN iframe[1].attrs THEN Err("KeyError")
                  ELSE LET href == iframe[1].attrs["src"]
                           relhref == RelHref(dir, href, Unbound)
                           title == IF "title" \in DOMAIN iframe[1].attrs
                                    THEN iframe[1].attrs["title"] ELSE <<"no", "title">>
                       IN  IF relhref = Unbound THEN Err("UnboundLocalError")
                           ELSE Ok(<<ResourceOf(iframe[1], href, relhref, title)>>)
             ELSE LinkResources(dir, FindAll(doc, "a"), 1, Unbound, <<>>)

----------------------------------------------------------------------------
(* sushichef.py: extract_text_from_html_item *)

\* translate_to_en: the external translation service, an uninterpreted map
translate_to_en(text) == <<"[en]">> \o text

\* the per-line clean-up of the html2text output
CleanLine(line) ==
    LET unmarked == SelectSeq(line, LAMBDA t : t \notin {"**", "###"})
        bullets == [i \in DOMAIN unmarked |->
                       IF unmarked[i] \in {"*", "middot", "blackcircle"}
                       THEN "bullet" ELSE unmarked[i]]
        nolead == IF bullets # <<>> /\ bullets[1] = "_" THEN Tail(bullets) ELSE bullets
    IN  IF nolead # <<>> /\ nolead[Len(nolead)] = "_"
        THEN SubSeq(nolead, 1, Len(nolead) - 1) ELSE nolead

RECURSIVE JoinLines(_)
JoinLines(lines) ==
    IF lines = <<>> THEN <<>> ELSE CleanLine(lines[1]) \o JoinLines(Tail(lines))

\* html2text of the body after the configured icons were removed
PageLines(elements) ==
    LET kept == SelectSeq(elements,
                    LAMBDA e : ~(e.name = "img" /\ e.attrs["src"] \in EDRAAK_DROP_ICONS))
    IN  [i \in DOMAIN kept |-> IF kept[i].name = "img" THEN <<"![]", kept[i].attrs["src"]>>
                                 ELSE kept[i].text]

extract_text_from_html_item(item) ==
    IF "content" \notin DOMAIN item THEN Err("KeyError")
    ELSE LET elements == Descendants(item["content"])
         IN  IF \E i \in DOMAIN elements :
                    elements[i].name = "img" /\ "src" \notin DOMAIN elements[i].attrs
             THEN Err("KeyError")
             ELSE LET text == JoinLines(PageLines(elements))
                  IN  Ok(IF DEBUG_MODE THEN translate_to_en(text) \o text ELSE text)

----------------------------------------------------------------------------
(* sushichef.py: guess_vertical_type; "<None>" stands for the None result *)

None == "<None>"

\* faulty variant: the children's kinds are tested before the title phrases
guess_vertical_type_shape_first(vertical) ==
    LET has_title == "display_name" \in DOMAIN vertical /\ vertical["display_name"] # <<>>
        title == vertical["display_name"]
        children_kinds == {vertical["children"][i]["kind"] : i \in DOMAIN vertical["children"]}
    IN  IF "discussion" \in children_kinds THEN "discussion_vertical"
        ELSE IF "video" \in children_kinds THEN "video_vertical"
        ELSE IF "problem" \in children_kinds THEN "test_vertical"
        ELSE IF has_title /\ \E lo \in EDRAAK_STRINGS.learning_objectives : StrContains(lo, title)
        THEN "learning_objectives_vertical"
        ELSE IF has_title /\ \E kc \in EDRAAK_STRINGS.knowledge_check : StrContains(kc, title)
        THEN "knowledge_check_vertical"
        ELSE IF children_kinds = {"html"} THEN "html_vertical"
        ELSE "<None>"

guess_vertical_type(vertical) ==
    LET has_title == "display_name" \in DOMAIN vertical /\ vertical["display_name"] # <<>>
        title == vertical["display_name"]
        children_kinds == {vertical["children"][i]["kind"] : i \in DOMAIN vertical["children"]}
    IN  IF has_title /\ \E lo \in EDRAAK_STRINGS.learning_objectives : StrContains(lo, title)
        THEN "learning_objectives_vertical"
        ELSE IF has_title /\ \E kc \in EDRAAK_STRINGS.knowledge_check : StrContains(kc, title)
        THEN "knowledge_check_vertical"
        ELSE IF "discussion" \in children_kinds THEN "discussion_vertical"
        ELSE IF "video" \in children_kinds THEN "video_vertical"
        ELSE IF "problem" \in children_kinds /\ "video" \notin children_kinds
        THEN "test_vertical"
        ELSE IF children_kinds = {"html"} THEN "html_vertical"
        ELSE None

\* the None a transformer returns in place of a node
NoNode == [kind |-> None]

----------------------------------------------------------------------------
(* sushichef.py: clean_subtree *)

\* faulty variant: problem nodes get their questions in the pre-processing step
PreProcess_with_questions(subtree, dir) ==
    IF subtree["kind"] = "video" THEN process_video(subtree)
    ELSE IF subtree["kind"] = "html"
    THEN LET resources == extract_downloadable_resouces_from_html_item(subtree, dir)
         IN  IF ~resources.ok THEN resources
             ELSE LET annotated == DictSet(subtree, "downloadable_resources", resources.val)
                  IN  IF resources.val # <<>> THEN Ok(annotated)
                      ELSE LET text == extract_text_from_html_item(annotated)
                           IN  IF text.ok THEN Ok(DictSet(annotated, "text", text.val))
                               ELSE text
    ELSE IF subtree["kind"] = "problem"
    THEN LET found == FindAll(subtree["content"], "multiplechoiceresponse")
                        \o FindAll(subtree["content"], "choiceresponse")
         IN  IF found = <<>> THEN Err("ValueError: no questoins found")
             ELSE Ok(DictSet(subtree, "questions", found))
    ELSE Ok(subtree)

\* the pre-processing of the node itself (video and html annotations)
PreProcess(subtree, dir) ==
    IF subtree["kind"] = "video" THEN process_video(subtree)
    ELSE IF subtree["kind"] = "html"
    THEN LET resources == extract_downloadable_resouces_from_html_item(subtree, dir)
         IN  IF ~resources.ok THEN resources
             ELSE LET annotated == DictSet(subtree, "downloadable_resources", resources.val)
                  IN  IF resources.val # <<>> THEN Ok(annotated)
                      ELSE LET text == extract_text_from_html_item(annotated)
                           IN  IF text.ok THEN Ok(DictSet(annotated, "text", text.val))
                               ELSE text
    ELSE Ok(subtree)

\* child['display_name'] if 'display_name' in child else ''
ChildTitle(child) ==
    IF "display_name" \in DOMAIN child THEN child["display_name"] ELSE <<>>

\* faulty variant: a vertical is classified before its title is tested
ChildVerdict_classify_first(child) ==
    IF child["kind"] \in SKIP_KINDS THEN "drop"
    ELSE IF child["kind"] = "vertical" /\ guess_vertical_type(child) = None THEN "abort"
    ELSE IF \E t \in TITLES_TO_DROP : StrContains(t, ChildTitle(child)) THEN "drop"
    ELSE IF child["kind"] = "vertical"
    THEN LET vtype == guess_vertical_type(child)
         IN  IF vtype = "discussion_vertical" THEN "drop"
             ELSE IF vtype = "learning_objectives_vertical" THEN "hoist"
             ELSE "recurse"
    ELSE "recurse"

\* faulty variant: the kind test is missing, so skip-listed kinds are recursed into
ChildVerdict_no_kind_skip(child) ==
    IF \E t \in TITLES_TO_DROP : StrContains(t, ChildTitle(child)) THEN "drop"
    ELSE IF child["kind"] = "vertical"
    THEN LET vtype == guess_vertical_type(child)
         IN  IF vtype = None THEN "abort"
             ELSE IF vtype = "discussion_vertical" THEN "drop"
             ELSE IF vtype = "learning_objectives_vertical" THEN "hoist"
             ELSE "recurse"
    ELSE "recurse"

\* what the filter does with one child, tests 1-3 in the order of the code:
\* "drop", "abort", "hoist" (learning objectives) or "recurse"
ChildVerdict(child) ==
    IF child["kind"] \in SKIP_KINDS THEN "drop"
    ELSE IF \E t \in TITLES_TO_DROP : StrContains(t, ChildTitle(child)) THEN "drop"
    ELSE IF child["kind"] = "vertical"
    THEN LET vtype == guess_vertical_type(child)
         IN  IF vtype = None THEN "abort"
             ELSE IF vtype = "discussion_vertical" THEN "drop"
             ELSE IF vtype = "learning_objectives_vertical" THEN "hoist"
             ELSE "recurse"
    ELSE "recurse"

\* the text hoisted from a learning-objectives vertical
HoistedText(child) ==
    LET htmlgrandchildren == child["children"]
    IN  IF htmlgrandchildren = <<>> THEN Err("IndexError")
        ELSE extract_text_from_html_item(htmlgrandchildren[1])

RECURSIVE clean_subtree(_, _)
RECURSIVE FilterChildren(_, _, _, _, _)

\* the loop over subtree['children']; yields the node and its new_children
FilterChildren(subtree, dir, children, i, new_children) ==
    IF i > Len(children) THEN Ok([subtree |-> subtree, new_children |-> new_children])
    ELSE LET child == children[i]
             verdict == ChildVerdict(child)
         IN  IF verdict = "drop"
             THEN FilterChildren(subtree, dir, children, i + 1, new_children)
             ELSE IF verdict = "abort"
             THEN Err("ValueError: unrecognized vertical type")
             ELSE IF verdict = "hoist"
             THEN LET text == HoistedText(child)
                  IN  IF ~text.ok THEN text
                      ELSE FilterChildren(DictSet(subtree, "description", text.val),
                                          dir, children, i + 1, new_children)
             ELSE LET clean_child == clean_subtree(child, dir)
                  IN  IF ~clean_child.ok THEN clean_child
                      ELSE FilterChildren(subtree, dir, children, i + 1,
                                          Append(new_children, clean_child.val))

clean_subtree(subtree, dir) ==
    LET pre == PreProcess(subtree, dir)
    IN  IF ~pre.ok THEN pre
        ELSE IF "children" \notin DOMAIN pre.val
        THEN Ok(DictSet(pre.val, "children", <<>>))
        ELSE LET filtered == FilterChildren(pre.val, dir, pre.val["children"], 1, <<>>)
             IN  IF ~filtered.ok THEN filtered
                 ELSE Ok(DictSet(filtered.val.subtree, "children",
                                 filtered.val.new_children))

----------------------------------------------------------------------------
(* sushichef.py: parse_questions_from_problem *)

DROP_EXPLANATIONS == {<<"release", "of", "the", "iPod", "allowed", "consumers">>}

\* every element below `els` in document order, each with the siblings
\* that precede it
RECURSIVE WithSiblings(_, _)
WithSiblings(els, i) ==
    IF i > Len(els) THEN <<>>
    ELSE <<[el |-> els[i], before |-> SubSeq(els, 1, i - 1)]>>
           \o WithSiblings(els[i].children, 1) \o WithSiblings(els, i + 1)

\* element.text: the text of the element and of everything below it
RECURSIVE ConcatText(_)
ConcatText(els) ==
    IF els = <<>> THEN <<>>
    ELSE els[1].text \o ConcatText(els[1].children) \o ConcatText(Tail(els))

TextOf(e) == ConcatText(<<e>>)

\* str.strip(): leading and trailing whitespace tokens removed
RECURSIVE Strip(_)
Strip(text) ==
    IF text = <<>> THEN <<>>
    ELSE IF text[1] = "newline" THEN Strip(Tail(text))
    ELSE IF text[Len(text)] = "newline" THEN Strip(SubSeq(text, 1, Len(text) - 1))
    ELSE text

\* the hints a response element at position k of the document gets:
\* findNext('solution') is the first solution element after it in the
\* document, wherever it is
HintsAt(doc, k) ==
    LET later == {j \in DOMAIN doc : j > k /\ doc[j].el.name = "solution"}
    IN  IF later = {} THEN <<>>
        ELSE LET solution_el == doc[CHOOSE j \in later : \A j2 \in later : j <= j2].el
                 solution_text == Strip(SelectSeq(TextOf(solution_el),
                                                  LAMBDA t : t # "Explanation"))
             IN  IF \E de \in DROP_EXPLANATIONS : StrContains(de, solution_text)
                 THEN <<>> ELSE <<solution_text>>

\* one question_dict, from the response element at position k of the
\* document, the n-th of its family
QuestionAt(problem, doc, k, n, group_name, single) ==
    LET response == doc[k]
        question_p == SelectSeq(response.before, LAMBDA e : e.name = "p")
        group == FindAll(response.el.children, group_name)
    IN  IF question_p = <<>> \/ group = <<>> THEN Err("AttributeError")
        ELSE LET choices == FindAll(group[1].children, "choice")
                 answers == [i \in DOMAIN choices |-> Strip(TextOf(choices[i]))]
                 right == SelectSeq(choices, LAMBDA c : c.attrs["correct"] = "true")
                 common == [id |-> <<problem["url_name"], n>>,
                            question |-> Strip(TextOf(question_p[Len(question_p)])),
                            all_answers |-> answers,
                            hints |-> HintsAt(doc, k)]
             IN  IF \E i \in DOMAIN choices : "correct" \notin DOMAIN choices[i].attrs
                 THEN Err("KeyError")
                 ELSE IF single
                 THEN Ok(common @@ [question_type |-> "single_selection",
                                    correct_answer |->
                                        IF right = <<>> THEN "<None>"
                                        ELSE Strip(TextOf(right[Len(right)]))])
                 ELSE Ok(common @@ [question_type |-> "multiple_selection",
                                    correct_answers |->
                                        [i \in DOMAIN right |-> Strip(TextOf(right[i]))]])

\* the loop over one family of response elements
FamilyQuestions(problem, doc, response_name, group_name, single) ==
    LET at == SelectSeq([k \in DOMAIN doc |-> k], LAMBDA k : doc[k].el.name = response_name)
    IN  [n \in DOMAIN at |-> QuestionAt(problem, doc, at[n], n, group_name, single)]

parse_questions_from_problem(problem) ==
    IF problem["kind"] # "problem" THEN Err("AssertionError")
    ELSE LET problem_els == FindAll(problem["content"], "problem")
         IN  IF Len(problem_els) # 1 THEN Err("AssertionError")
             ELSE LET doc == WithSiblings(problem["content"], 1)
                      found == FamilyQuestions(problem, doc, "multiplechoiceresponse",
                                               "choicegroup", TRUE)
                               \o FamilyQuestions(problem, doc, "choiceresponse",
                                                  "checkboxgroup", FALSE)
                      failed == SelectSeq(found, LAMBDA q : ~q.ok)
                      questions == [i \in DOMAIN found |-> found[i].val]
                  IN  IF failed # <<>> THEN failed[1]
                      ELSE IF questions = <<>>
                      THEN Err("ValueError: Parsing error -- no questoins found")
                      ELSE Ok(DictSet(problem, "questions", questions))

----------------------------------------------------------------------------
(* sushichef.py: transform_vertical_to_exercise *)

\* get_license(licenses.CC_BY_NC_SA, copyright_holder='Edraak').as_dict()
EDRAAK_LICENSE == [license_id |-> "CC BY-NC-SA", copyright_holder |-> "Edraak"]

\* parent_title=None
NoParentTitle == <<>>

\* parent_title + ' ' + vertical['display_name'], or the display_name alone
QualifiedTitle(vertical, parent_title) ==
    IF parent_title # <<>> THEN parent_title \o vertical["display_name"]
    ELSE vertical["display_name"]

\* the loop over the children: the questions of every problem child, and
\* the children as the loop leaves them (parse_questions_from_problem
\* writes the questions into the problem node); the first exception ends
\* the loop
ExerciseQuestions(children) ==
    LET Parsed(parsed) ==
            LET failed == {i \in DOMAIN children : ~parsed[i].ok}
            IN  IF failed # {} THEN parsed[CHOOSE i \in failed : \A i2 \in failed : i <= i2]
                ELSE Ok([questions |->
                            ConcatAll([i \in DOMAIN children |->
                                         IF children[i]["kind"] = "problem"
                                         THEN parsed[i].val["questions"] ELSE <<>>]),
                         children |-> [i \in DOMAIN children |-> parsed[i].val]])
    IN  Parsed([i \in DOMAIN children |->
                  IF children[i]["kind"] = "problem"
                  THEN parse_questions_from_problem(children[i])
                  ELSE Ok(children[i])])

\* faulty variant: m stays at the default
MasteryM_default(questions) == 5

\* the value of exercise_data['m'] for a list of questions
MasteryM(questions) == IF Len(questions) < 5 THEN Len(questions) ELSE 5

\* the result is the exercise_dict (None when there is no children key)
\* and the vertical as the call leaves it
transform_vertical_to_exercise(vertical, parent_title) ==
    IF "children" \notin DOMAIN vertical THEN Ok([node |-> NoNode, vertical |-> vertical])
    ELSE IF vertical["children"] = <<>> THEN Err("IndexError")
    ELSE LET first_child == vertical["children"][1]
             exercise_dict(description, parsed) ==
                 Ok([node |->
                        [kind |-> "exercise",
                         title |-> QualifiedTitle(vertical, parent_title),
                         author |-> "Edraak",
                         source_id |-> vertical["url_name"],
                         description |-> description,
                         language |-> "ar",
                         license |-> EDRAAK_LICENSE,
                         exercise_data |->
                             [mastery_model |-> "m_of_n",
                              randomize |-> FALSE,
                              m |-> MasteryM(parsed.questions)],
                         questions |-> parsed.questions],
                     vertical |-> DictSet(vertical, "children", parsed.children)])
         IN  Then(IF first_child["kind"] = "html"
                  THEN extract_text_from_html_item(first_child)
                  ELSE Ok(<<>>),
                  LAMBDA description :
                    IF {"display_name", "url_name"} \ DOMAIN vertical # {}
                    THEN Err("KeyError")
                    ELSE Then(ExerciseQuestions(vertical["children"]),
                              LAMBDA parsed : exercise_dict(description, parsed)))

----------------------------------------------------------------------------
(* sushichef.py: flatten_transformed_tree *)

FUZZY_MATCH_THRESHOLD == 92

Max2(a, b) == IF a >= b THEN a ELSE b

\* the length of the longest common subsequence of a[i..] and b[j..]
RECURSIVE LcsLen(_, _, _, _)
LcsLen(a, b, i, j) ==
    IF i > Len(a) \/ j > Len(b) THEN 0
    ELSE IF a[i] = b[j] THEN 1 + LcsLen(a, b, i + 1, j + 1)
    ELSE Max2(LcsLen(a, b, i + 1, j), LcsLen(a, b, i, j + 1))

\* fuzz.ratio(a, b): 100 for equal strings, 0 when one is empty, else
\* round(100 * 2 * M / T), M the matched symbols and T the total length
Ratio(a, b) ==
    IF a = b THEN 100
    ELSE IF a = <<>> \/ b = <<>> THEN 0
    ELSE LET M == LcsLen(a, b, 1, 1)
             T == Len(a) + Len(b)
         IN  (400 * M + T) \div (2 * T)

\* the test on a child and its only grandchild
SameTitleAsOnlyChild(child) ==
    /\ "children" \in DOMAIN child
    /\ Len(child["children"]) = 1
    /\ Ratio(Strip(child["title"]), Strip(child["children"][1]["title"]))
         >= FUZZY_MATCH_THRESHOLD

\* a collapsed child is replaced by its only child as it is; any other
\* child is flattened
RECURSIVE flatten_transformed_tree(_)
flatten_transformed_tree(course_dict) ==
    IF "children" \notin DOMAIN course_dict THEN course_dict
    ELSE DictSet(course_dict, "children",
            [i \in DOMAIN course_dict["children"] |->
                LET child == course_dict["children"][i]
                IN  IF SameTitleAsOnlyChild(child) THEN child["children"][1]
                    ELSE flatten_transformed_tree(child)])

----------------------------------------------------------------------------
(* sushichef.py: transform_html_vertical, transform_video_vertical *)

\* package_html_content_as_html5_zip_file: the zip of an index.html made of
\* the html content with a charset meta tag
package_html_content_as_html5_zip_file(html) ==
    [index_html |-> <<El("meta", [charset |-> "utf-8"], <<>>, <<>>)>> \o html["content"]]

\* faulty variant: every html child is processed
HtmlsProcessed_all(htmls) == htmls

\* the htmls the loop gets to before `return nodes, downloadable_resources`
HtmlsProcessed(htmls) == IF htmls = <<>> THEN <<>> ELSE <<htmls[1]>>

PdfNode(resource) ==
    [kind |-> "document",
     title |-> resource["title"],
     description |-> IF "description" \in DOMAIN resource
                     THEN resource["description"] ELSE <<>>,
     source_id |-> resource["relhref"],
     license |-> EDRAAK_LICENSE,
     language |-> "ar",
     files |-> <<[file_type |-> "document", path |-> resource["relhref"],
                  language |-> "ar"]>>]

HasResources(html) ==
    "downloadable_resources" \in DOMAIN html /\ html["downloadable_resources"] # <<>>

\* the nodes one html child contributes
HtmlNodes(vertical, html) ==
    IF HasResources(html)
    THEN LET pdfs == SelectSeq(html["downloadable_resources"],
                               LAMBDA r : r["ext"] = "pdf")
         IN  [i \in DOMAIN pdfs |-> PdfNode(pdfs[i])]
    ELSE <<[kind |-> "html5",
            title |-> vertical["display_name"],
            description |-> IF "description" \in DOMAIN html
                            THEN html["description"] ELSE <<>>,
            source_id |-> html["url_name"],
            license |-> EDRAAK_LICENSE,
            language |-> "ar",
            files |-> <<[file_type |-> "html5",
                         path |-> package_html_content_as_html5_zip_file(html),
                         language |-> "ar"]>>]>>

\* the resources one html child contributes to the pool
HtmlPool(html) ==
    IF HasResources(html)
    THEN SelectSeq(html["downloadable_resources"], LAMBDA r : r["ext"] # "pdf")
    ELSE <<>>

\* the result is the pair nodes, downloadable_resources
transform_html_vertical(vertical) ==
    IF "children" \notin DOMAIN vertical
    THEN Ok([nodes |-> <<>>, downloadable_resources |-> <<>>])
    ELSE IF \E i \in DOMAIN vertical["children"] : vertical["children"][i]["kind"] # "html"
    THEN Err("AssertionError")
    ELSE LET htmls == HtmlsProcessed(vertical["children"])
         IN  IF htmls = <<>> THEN Err("TypeError")
             ELSE IF \E i \in DOMAIN htmls :
                        /\ ~HasResources(htmls[i])
                        /\ ("display_name" \notin DOMAIN vertical
                             \/ "url_name" \notin DOMAIN htmls[i])
             THEN Err("KeyError")
             ELSE Ok([nodes |-> ConcatAll([i \in DOMAIN htmls |->
                                             HtmlNodes(vertical, htmls[i])]),
                      downloadable_resources |->
                          ConcatAll([i \in DOMAIN htmls |-> HtmlPool(htmls[i])])])

\* the result is the pair video_dict, downloadable_resources
transform_video_vertical(vertical, parent_title) ==
    IF "children" \notin DOMAIN vertical
    THEN Ok([node |-> NoNode, downloadable_resources |-> <<>>])
    ELSE IF vertical["children"] = <<>> THEN Err("IndexError")
    ELSE LET first_child == vertical["children"][1]
             description == IF first_child["kind"] = "html"
                            THEN extract_text_from_html_item(first_child)
                            ELSE Ok(<<>>)
             videos == SelectSeq(vertical["children"], LAMBDA ch : ch["kind"] = "video")
             htmls == SelectSeq(vertical["children"],
                                LAMBDA ch : /\ ch["kind"] = "html"
                                            /\ "downloadable_resources" \in DOMAIN ch)
         IN  IF ~description.ok THEN description
             ELSE IF "display_name" \notin DOMAIN vertical THEN Err("KeyError")
             ELSE IF Len(videos) # 1 THEN Err("AssertionError")
             ELSE LET video == videos[1]
                      has_id == "youtube_id" \in DOMAIN video
                      has_path == "path" \in DOMAIN video
                  IN  IF ~has_id /\ ~has_path THEN Err("UnboundLocalError")
                      ELSE Ok([node |->
                                  [kind |-> "video",
                                   source_id |-> IF has_id /\ video["youtube_id"] # ""
                                                 THEN video["youtube_id"]
                                                 ELSE IF has_path THEN video["path"]
                                                 ELSE None,
                                   title |-> QualifiedTitle(vertical, parent_title),
                                   author |-> "Edraak",
                                   description |-> description.val,
                                   language |-> "ar",
                                   license |-> EDRAAK_LICENSE,
                                   files |-> <<IF has_id
                                               THEN [file_type |-> "video",
                                                     youtube_id |-> video["youtube_id"],
                                                     language |-> "ar",
                                                     high_resolution |-> FALSE]
                                               ELSE [file_type |-> "video",
                                                     path |-> video["path"],
                                                     language |-> "ar",
                                                     ffmpeg_settings |-> [crf |-> 24]]>>],
                               downloadable_resources |->
                                   ConcatAll([i \in DOMAIN htmls |->
                                               htmls[i]["downloadable_resources"]])])

----------------------------------------------------------------------------
(* sushichef.py: make_html5zip_from_resources, transform_tree *)

\* the index lists one link per relhref (a later duplicate is skipped), the
\* archive gets every resource file; writing a file that is not on disk
\* fails
make_html5zip_from_resources(dir, downloadable_resources, basefilename) ==
    IF \E i \in DOMAIN downloadable_resources :
          {"filename", "relhref", "title", "ext"} \ DOMAIN downloadable_resources[i] # {}
    THEN Err("KeyError")
    ELSE IF \E i \in DOMAIN downloadable_resources :
               ~PathExists(dir, downloadable_resources[i]["relhref"])
    THEN Err("FileNotFoundError")
    ELSE LET first_seen == {i \in DOMAIN downloadable_resources :
                              \A j \in 1..(i - 1) :
                                 downloadable_resources[j]["relhref"]
                                   # downloadable_resources[i]["relhref"]}
             Line(resource) == [localhref |-> resource["filename"],
                                title |-> resource["title"], ext |-> resource["ext"]]
             Links(i) == IF i \in first_seen
                         THEN <<Line(downloadable_resources[i])>> ELSE <<>>
         IN  Ok([zip_path |-> <<"chefdata/tmp", basefilename>>,
                 title |-> EDRAAK_STRINGS.downloadable_resources,
                 content |-> ConcatAll([i \in DOMAIN downloadable_resources |-> Links(i)]),
                 files |-> [i \in DOMAIN downloadable_resources |->
                              [srcpath |-> downloadable_resources[i]["relhref"],
                               filename |-> downloadable_resources[i]["filename"]]]])

\* faulty variant: the enclosing sequential's title is passed as parent_title
ParentTitleArg_sequential(sequential) == sequential["display_name"]

\* the parent_title transform_tree passes to transform_vertical_to_exercise
\* and transform_video_vertical for a vertical of `sequential`: the calls
\* have one argument, so it is the default
ParentTitleArg(sequential) == NoParentTitle

\* faulty variant: the transformer works on a copy of the vertical
SourceVertical_copied(vertical, after) == vertical

\* the vertical the source tree holds after a call that was handed it: the
\* call gets the object itself, so what it wrote is in the tree
SourceVertical(vertical, after) == after

\* faulty variant: one pool for the whole course
PoolAtChapterStart_shared(pool_before) == pool_before

\* chapter_downloadable_resources = [] at the start of every chapter
PoolAtChapterStart(pool_before) == <<>>

\* one pass of the loop over the verticals of a sequential: the nodes and
\* pool resources the vertical contributes, and the vertical after the pass
TransformVertical(sequential, vertical) ==
    LET vtype == guess_vertical_type(vertical)
        Contribution(nodes, pool, after) ==
            Ok([nodes |-> nodes, pool |-> pool,
                vertical |-> SourceVertical(vertical, after)])
        NodeList(node) == IF node = NoNode THEN <<>> ELSE <<node>>
    IN  IF vtype \in {"knowledge_check_vertical", "test_vertical"}
        THEN Then(transform_vertical_to_exercise(vertical, ParentTitleArg(sequential)),
                  LAMBDA r : Contribution(NodeList(r.node), <<>>, r.vertical))
        ELSE IF vtype = "video_vertical"
        THEN Then(transform_video_vertical(vertical, ParentTitleArg(sequential)),
                  LAMBDA r : Contribution(NodeList(r.node), r.downloadable_resources,
                                          vertical))
        ELSE IF vtype = "html_vertical"
        THEN Then(transform_html_vertical(vertical),
                  LAMBDA r : Contribution(r.nodes, r.downloadable_resources, vertical))
        ELSE IF vtype = None THEN Err("TypeError")
        ELSE IF "url_name" \notin DOMAIN vertical THEN Err("KeyError")
        ELSE Contribution(<<>>, <<>>, vertical)

\* the loop over the verticals of a sequential
RECURSIVE TransformVerticals(_, _, _, _, _, _)
TransformVerticals(sequential, verticals, i, nodes, pool, seen) ==
    IF i > Len(verticals) THEN Ok([nodes |-> nodes, pool |-> pool, children |-> seen])
    ELSE Then(TransformVertical(sequential, verticals[i]),
              LAMBDA r : TransformVerticals(sequential, verticals, i + 1,
                                            nodes \o r.nodes, pool \o r.pool,
                                            Append(seen, r.vertical)))

\* the loop over the sequentials of a chapter; an empty sequential is
\* skipped
RECURSIVE TransformSequentials(_, _, _, _, _)
TransformSequentials(sequentials, i, nodes, pool, seen) ==
    IF i > Len(sequentials) THEN Ok([nodes |-> nodes, pool |-> pool, children |-> seen])
    ELSE LET sequential == sequentials[i]
             sequential_dict(children) ==
                 [kind |-> "topic",
                  title |-> sequential["display_name"],
                  source_id |-> sequential["url_name"],
                  description |-> IF "description" \in DOMAIN sequential
                                  THEN sequential["description"] ELSE <<>>,
                  language |-> "ar",
                  license |-> EDRAAK_LICENSE,
                  children |-> children]
         IN  IF "children" \notin DOMAIN sequential THEN Err("KeyError")
             ELSE IF Len(sequential["children"]) = 0
             THEN TransformSequentials(sequentials, i + 1, nodes, pool,
                                       Append(seen, sequential))
             ELSE IF {"display_name", "url_name"} \ DOMAIN sequential # {}
             THEN Err("KeyError")
             ELSE Then(TransformVerticals(sequential, sequential["children"], 1,
                                          <<>>, <<>>, <<>>),
                       LAMBDA r :
                         TransformSequentials(sequentials, i + 1,
                             Append(nodes, sequential_dict(r.nodes)),
                             pool \o r.pool,
                             Append(seen, DictSet(sequential, "children", r.children))))

\* the loop over the chapters; `pool` is chapter_downloadable_resources as
\* the previous chapter left it
RECURSIVE TransformChapters(_, _, _, _, _, _)
TransformChapters(dir, chapters, i, nodes, pool, seen) ==
    IF i > Len(chapters) THEN Ok([nodes |-> nodes, children |-> seen])
    ELSE LET chapter == chapters[i]
             source_id == <<chapter["url_name"], "-downloadable-resources">>
             chapter_dict(children) ==
                 [kind |-> "topic",
                  title |-> chapter["display_name"],
                  source_id |-> chapter["url_name"],
                  description |-> <<>>,
                  language |-> "ar",
                  license |-> EDRAAK_LICENSE,
                  children |-> children]
             html5app_dict(zip_path) ==
                 [kind |-> "html5",
                  title |-> EDRAAK_STRINGS.downloadable_resources,
                  description |-> EDRAAK_STRINGS.downloadable_resources_description,
                  source_id |-> source_id,
                  license |-> EDRAAK_LICENSE,
                  language |-> "ar",
                  files |-> <<[file_type |-> "html5", path |-> zip_path,
                               language |-> "ar"]>>]
             NextChapter(r, children) ==
                 TransformChapters(dir, chapters, i + 1,
                                   Append(nodes, chapter_dict(children)), r.pool,
                                   Append(seen, DictSet(chapter, "children", r.children)))
         IN  IF {"display_name", "url_name", "children"} \ DOMAIN chapter # {}
             THEN Err("KeyError")
             ELSE Then(TransformSequentials(chapter["children"], 1, <<>>,
                                            PoolAtChapterStart(pool), <<>>),
                       LAMBDA r :
                         IF r.pool = <<>> THEN NextChapter(r, r.nodes)
                         ELSE Then(make_html5zip_from_resources(dir, r.pool, source_id),
                                   LAMBDA zip_path :
                                     NextChapter(r, Append(r.nodes,
                                                           html5app_dict(zip_path)))))

\* course_dict before the final flattening, and the source tree after the
\* loops
TransformCourse(tree, dir) ==
    IF {"course", "display_name", "course_image", "children"} \ DOMAIN tree # {}
    THEN Err("KeyError")
    ELSE LET image == <<"/static", tree["course_image"]>>
         IN  Then(TransformChapters(dir, tree["children"], 1, <<>>, <<>>, <<>>),
                  LAMBDA r :
                    Ok([course_dict |->
                           [kind |-> "topic",
                            title |-> tree["display_name"],
                            thumbnail |-> IF PathExists(dir, image) THEN image
                                          ELSE ReplaceUnderscores(image),
                            source_id |-> tree["course"],
                            description |-> <<>>,
                            language |-> "ar",
                            license |-> EDRAAK_LICENSE,
                            children |-> r.nodes],
                        source |-> DictSet(tree, "children", r.children)]))

\* the result is the flattened course_dict, with the source tree as the
\* call leaves it
transform_tree(tree, dir) ==
    Then(TransformCourse(tree, dir),
         LAMBDA r : Ok([tree |-> flatten_transformed_tree(r.course_dict),
                        source |-> r.source]))

----------------------------------------------------------------------------
(* libedx.py: cached *)

\* cached.expire, in clock ticks
Expire == 2

\* what the shelf holds under a key: the pair (result, created) the
\* wrapper stores, or what a damaged file gives back: a value that is not
\* iterable, a pair whose second item is not a number, a tuple of another
\* length, bytes that do not unpickle
Entry(result, created) == [shape |-> "pair", result |-> result, created |-> created]

DamagedShapes == {"scalar", "pair_without_time", "triple", "garbled"}

\* the exception of `result, created = c[h]` and of the expiry test
\* time() - created > cached.expire, "none" when both succeed
LookupError(store, h, now) ==
    IF h \notin DOMAIN store THEN "KeyError"
    ELSE IF store[h].shape = "garbled" THEN "UnpicklingError"
    ELSE IF store[h].shape = "scalar" THEN "TypeError"
    ELSE IF store[h].shape = "triple" THEN "ValueError"
    ELSE IF store[h].shape = "pair_without_time" THEN "TypeError"
    ELSE IF now - store[h].created > Expire THEN "KeyError"
    ELSE "none"

\* the wrapped function
WrappedF(args) == translate_to_en(<<args>>)

\* wrapper(*args): the cache after the call, or the exception that leaves
\* the wrapper
cached_wrapper(c, args) ==
    LET h == args
        raised == LookupError(c.store, h, c.now)
    IN  IF raised = "none"
        THEN Ok([c EXCEPT !.key = h, !.result = c.store[h].result])
        ELSE IF raised = "KeyError"
        THEN Ok([c EXCEPT !.key = h, !.result = WrappedF(args),
                          !.calls = Append(c.calls, args),
                          !.store = DictSet(c.store, h, Entry(WrappedF(args), c.now))])
        ELSE IF raised = "TypeError"
        THEN Ok([c EXCEPT !.key = h, !.result = WrappedF(args),
                          !.calls = Append(c.calls, args)])
        ELSE Err(raised)

----------------------------------------------------------------------------
(* Inputs: fragment files *)

MaxChildren == 2

MaxMissing == 1

MaxVideoEls == 2

SeqsUpTo(S, n) == UNION {[1..k -> S] : k \in 0..n}

RefEl(kind, name) == El(kind, [url_name |-> name], <<>>, <<>>)

WikiEl == El("wiki", [slug |-> "course_wiki"], <<>>, <<>>)

TextEl == El(TextNode, EmptyDict, <<"newline">>, <<>>)

LO1 == <<"al-ahdaf_hamza", "al-taalimia">>

LO2 == <<"al-ahdaf", "al-taalimia">>

KC == <<"al-tahaqquq", "min", "al-maarifa">>

DropTitle == <<"mufajaat", "al-masaq">>

HtmlText ==
    <<El("p", EmptyDict, <<"**", "goals", "**">>, <<>>),
      El("img", [src |-> "/static/lightbulb.jpg"], <<>>, <<>>),
      El("p", EmptyDict, <<"*", "learn", "_">>, <<>>)>>

HtmlLinks ==
    <<El("p", EmptyDict, <<"files">>, <<>>),
      El("a", [href |-> <<"/static", "my_file", ".pdf">>], <<"worksheet">>, <<>>),
      El("a", [href |-> <<"/static", "notes", ".docx">>], <<"notes">>, <<>>)>>

VideoOk ==
    <<El("video", [youtube_id_1_0 |-> "yt_legacy"], <<>>,
         <<El("encoded_video", [profile |-> "desktop_mp4", url |-> "cdn_mp4"], <<>>, <<>>),
           El("encoded_video", [profile |-> "youtube", url |-> "yt_encoded"], <<>>, <<>>),
           El("source", [src |-> "lecture.mp4"], <<>>, <<>>)>>)>>

VideoBad ==
    <<El("video", [youtube_id_1_0 |-> ""], <<>>,
         <<El("encoded_video", [profile |-> "desktop_mp4", url |-> "cdn_mp4"], <<>>, <<>>)>>)>>

ProblemOne ==
    <<El("problem", EmptyDict, <<>>,
         <<El("p", EmptyDict, <<"which", "one">>, <<>>),
           El("multiplechoiceresponse", EmptyDict, <<>>,
              <<El("choicegroup", EmptyDict, <<>>,
                   <<El("choice", [correct |-> "true"], <<"yes">>, <<>>),
                     El("choice", [correct |-> "false"], <<"no">>, <<>>)>>)>>),
           El("solution", EmptyDict, <<"Explanation", "because">>, <<>>)>>)>>

ProblemEmpty ==
    <<El("problem", EmptyDict, <<>>,
         <<El("p", EmptyDict, <<"only", "prose">>, <<>>)>>)>>

\* the static assets of every course directory of the model
StaticDir ==
    (<<"/static", "my file", ".pdf">> :> <<>>) @@ (<<"/static", "notes", ".docx">> :> <<>>)

\* the fragment files below the course root
FragmentFiles(vertical_title, vertical_children) ==
    (PathOf("chapter", "ch1", "xml") :>
        <<El("chapter", [display_name |-> <<"week", "one">>, url_name |-> "ch1"], <<>>,
             <<RefEl("sequential", "sq1")>>)>>)
    @@ (PathOf("sequential", "sq1", "xml") :>
        <<El("sequential", [display_name |-> <<"lesson">>, url_name |-> "sq1"], <<>>,
             <<TextEl, RefEl("vertical", "v1")>>)>>)
    @@ (PathOf("vertical", "v1", "xml") :>
        <<El("vertical", [display_name |-> vertical_title, url_name |-> "v1"], <<>>,
             vertical_children)>>)
    @@ (PathOf("html", "h1", "html") :> HtmlText)
    @@ (PathOf("video", "vd1", "xml") :> VideoOk)
    @@ (PathOf("problem", "p1", "xml") :> ProblemOne)
    @@ (PathOf("problem", "p0", "xml") :> ProblemEmpty)
    @@ (PathOf("discussion", "d1", "xml") :>
        <<El("discussion", [display_name |-> <<"talk">>, url_name |-> "d1"], <<>>, <<>>)>>)

CourseDir(vertical_title, vertical_children, course_children, body_attrs, flat_attrs) ==
    (PathOf(NoKind, "course", "xml") :> <<El("course", flat_attrs, <<>>, <<>>)>>)
    @@ (PathOf("course", "course", "xml") :>
        <<El("course", body_attrs, <<>>, course_children)>>)
    @@ FragmentFiles(vertical_title, vertical_children)
    @@ StaticDir

Without(dir, missing) == [p \in (DOMAIN dir) \ missing |-> dir[p]]

Restrict(d, keys) == [k \in keys |-> d[k]]

VerticalChildEls ==
    {RefEl("html", "h1"), RefEl("video", "vd1"), RefEl("problem", "p1"),
     RefEl("problem", "p0"), RefEl("discussion", "d1"), WikiEl, TextEl}

CourseChildEls ==
    {<<RefEl("chapter", "ch1")>>, <<WikiEl, TextEl, RefEl("chapter", "ch1"), WikiEl>>}

FullBodyAttrs ==
    [display_name |-> <<"first", "aid">>, course_image |-> "cover_image.png",
     course |-> "BODY101", org |-> "BodyOrg"]

FullFlatAttrs ==
    [url_name |-> "course", org |-> "Edraak", course |-> "FA101",
     display_name |-> <<"flat", "title">>]

FragmentPaths ==
    {PathOf(NoKind, "course", "xml"), PathOf("course", "course", "xml")}
    \cup DOMAIN FragmentFiles(<<>>, <<>>)

MissingSets == {m \in SUBSET FragmentPaths : Cardinality(m) <= MaxMissing}

VerticalTitles == {<<"intro">>, KC}

DefaultFlatAttrs == Restrict(FullFlatAttrs, {"url_name", "org", "course"})

\* a directory that varies the markup below the root and the files that exist
DirVaryingChildren(t, vc, cc, m) ==
    Without(CourseDir(t, vc, cc, FullBodyAttrs, DefaultFlatAttrs), m)

\* a directory that varies the attributes of the two course files
DirVaryingAttrs(bk, fk) ==
    CourseDir(<<"intro">>, <<RefEl("video", "vd1"), RefEl("html", "h1")>>,
              <<RefEl("chapter", "ch1")>>,
              Restrict(FullBodyAttrs, bk), Restrict(FullFlatAttrs, fk))

----------------------------------------------------------------------------
(* Inputs: resolved trees handed to the pruner, and video nodes *)

Leaf(kind, name, content) ==
    [kind |-> kind, url_name |-> name, content |-> content, children |-> <<>>]

Container(kind, name, attrs, children) ==
    DictUpdate([kind |-> kind, id |-> name, children |-> children], attrs)

PruneLeaves ==
    {Leaf("html", "h1", HtmlText),
     Leaf("html", "h2", HtmlLinks),
     DictSet(Leaf("html", "h3", HtmlText), "display_name", DropTitle),
     Leaf("video", "vd1", VideoOk),
     Leaf("video", "vd0", VideoBad),
     Leaf("problem", "p1", ProblemOne),
     [kind |-> "wiki", slug |-> "course_wiki"],
     Container("discussion", "d1", [display_name |-> <<"talk">>, url_name |-> "d1"], <<>>)}

VerticalAttrs ==
    {[url_name |-> "v1"]}
    \cup {[url_name |-> "v1", display_name |-> t] :
            t \in {<<>>, <<"intro">>, LO1, <<"week", "one">> \o LO2, KC, DropTitle,
                   LO1 \o KC, KC \o DropTitle, <<"al-ahdaf">>,
                   <<"al-tahaqquq", "al-maarifa">>}}

Vertical(a, c) == Container("vertical", "v1", a, c)

Siblings ==
    {Container("vertical", "v2", [url_name |-> "v2", display_name |-> KC],
               <<Leaf("problem", "p1", ProblemOne)>>),
     Container("vertical", "v3", [url_name |-> "v3", display_name |-> LO2],
               <<Leaf("html", "h1", HtmlText), Leaf("html", "h2", HtmlLinks)>>),
     Container("vertical", "v4", [url_name |-> "v4", display_name |-> DropTitle], <<>>)}

\* the child lists of the root: the vertical alone, or beside one sibling
Arrangements(v) ==
    {<<v>>} \cup {<<v, sib>> : sib \in Siblings} \cup {<<sib, v>> : sib \in Siblings}

PruneTree(c) ==
    Container("sequential", "sq1", [url_name |-> "sq1", display_name |-> <<"lesson">>], c)

VideoEls ==
    {El("encoded_video", [profile |-> "youtube", url |-> "yt_encoded"], <<>>, <<>>),
     El("encoded_video", [profile |-> "desktop_mp4", url |-> "cdn_mp4"], <<>>, <<>>),
     El("source", [src |-> "lecture.mp4"], <<>>, <<>>),
     El("track", [src |-> "subtitles.srt"], <<>>, <<>>)}

VideoAttrs == {EmptyDict, [youtube_id_1_0 |-> ""], [youtube_id_1_0 |-> "yt_legacy"]}

VideoNode(a, c) == Leaf("video", "vd1", <<El("video", a, <<>>, c)>>)

----------------------------------------------------------------------------
(* Inputs: problem files, pruned verticals *)

MaxBlocks == 3

MaxExerciseChildren == 3

ChoiceEls ==
    <<El("choice", [correct |-> "true"], <<"yes">>, <<>>),
      El("choice", [correct |-> "false"], <<"no">>, <<>>),
      El("choice", [correct |-> "true"], <<"maybe">>, <<>>)>>

Prompt(word) == El("p", EmptyDict, <<"newline", "which", word, "newline">>, <<>>)

SingleSelect == El("multiplechoiceresponse", EmptyDict, <<>>,
                   <<El("choicegroup", EmptyDict, <<>>, ChoiceEls)>>)

MultiSelect == El("choiceresponse", EmptyDict, <<>>,
                  <<El("checkboxgroup", EmptyDict, <<>>, ChoiceEls)>>)

Solution(text) == El("solution", EmptyDict, text, <<>>)

OwnSolution == Solution(<<"Explanation", "because", "newline">>)

Boilerplate ==
    Solution(<<"Explanation", "the", "release", "of", "the", "iPod", "allowed",
               "consumers", "more">>)

\* the blocks a problem body is made of: a prompt, a response element, and
\* no solution, a solution, or a solution with the boilerplate text
QuestionBlocks ==
    {<<Prompt("one"), SingleSelect>>,
     <<Prompt("one"), SingleSelect, OwnSolution>>,
     <<Prompt("one"), SingleSelect, Boilerplate>>,
     <<Prompt("all"), MultiSelect>>,
     <<Prompt("all"), MultiSelect, OwnSolution>>}

ProblemNode(name, blocks) ==
    Leaf("problem", name, <<El("problem", EmptyDict, <<>>, ConcatAll(blocks))>>)

\* a problem with n single-select questions, each with its solution
ProblemWith(name, n) ==
    ProblemNode(name, [i \in 1..n |-> <<Prompt("one"), SingleSelect, OwnSolution>>])

\* a leaf as the pruner leaves it
Pruned(leaf) == clean_subtree(leaf, StaticDir).val

ExerciseChildren ==
    {Pruned(Leaf("html", "h1", HtmlText)), ProblemWith("p1", 1), ProblemWith("p2", 2),
     ProblemWith("p3", 3),
     ProblemNode("p4", <<<<Prompt("one"), SingleSelect>>, <<Prompt("all"), MultiSelect>>>>)}

ExerciseVertical(children) ==
    Container("vertical", "v1", [url_name |-> "v1", display_name |-> KC], children)

----------------------------------------------------------------------------
(* Inputs: target trees handed to flatten_transformed_tree *)

MaxTopNodes == 2

\* a title of six symbols, the same with one symbol more (ratio 92), and
\* a short different one (ratio below the threshold against both)
TitleA == <<"l", "e", "s", "s", "o", "n">>

TitleA2 == TitleA \o <<"s">>

TitleB == <<"q", "u", "i", "z">>

TargetLeaf(t) == [kind |-> "video", title |-> t, source_id |-> "yt_encoded"]

Topic(t, children) ==
    [kind |-> "topic", title |-> t, source_id |-> "t1", children |-> children]

TargetLeaves == {TargetLeaf(TitleA), TargetLeaf(TitleB)}

TargetLevel2 ==
    TargetLeaves
    \cup {Topic(t, <<n>>) : t \in {TitleA, TitleA2, TitleB}, n \in TargetLeaves}

TargetLevel1 ==
    TargetLevel2
    \cup {Topic(t, <<n>>) : t \in {TitleA, TitleA2, TitleB}, n \in TargetLevel2}

TargetTree(children) == Topic(<<"c", "o", "u", "r", "s", "e">>, children)



----------------------------------------------------------------------------
(* Inputs: resolved course trees handed to clean_subtree and then to        *)
(* transform_tree.  Titles that are compared by flatten_transformed_tree    *)
(* are either equal or have no word in common.                              *)

MaxVerticals == 2

MaxChapters == 2

CourseVertical(name, title, children) ==
    Container("vertical", name, [url_name |-> name, display_name |-> title], children)

\* an exercise, videos without and with a resources html, a video beside a
\* problem, html verticals
\* with one and two html children, and an html vertical whose only child
\* has a title of TITLES_TO_DROP
CourseVerticals ==
    {CourseVertical("v_kc", KC, <<Leaf("problem", "p1", ProblemOne)>>),
     CourseVertical("v_video", <<"lesson">>, <<Leaf("video", "vd1", VideoOk)>>),
     CourseVertical("v_video_res", <<"watch">>,
                    <<Leaf("html", "h2", HtmlLinks), Leaf("video", "vd1", VideoOk)>>),
     CourseVertical("v_video_quiz", <<"recap">>,
                    <<Leaf("video", "vd1", VideoOk), Leaf("problem", "p1", ProblemOne)>>),
     CourseVertical("v_html", <<"read">>, <<Leaf("html", "h1", HtmlText)>>),
     CourseVertical("v_html_two", <<"read">>,
                    <<Leaf("html", "h1", HtmlText), Leaf("html", "h2", HtmlLinks)>>),
     CourseVertical("v_html_res", <<"files">>,
                    <<Leaf("html", "h2", HtmlLinks), Leaf("html", "h1", HtmlText)>>),
     CourseVertical("v_emptied", <<"intro">>,
                    <<DictSet(Leaf("html", "h3", HtmlText), "display_name", DropTitle)>>)}

CourseSequential(name, verticals) ==
    Container("sequential", name, [url_name |-> name, display_name |-> <<"lesson">>],
              verticals)

CourseChapter(name, sequentials) ==
    Container("chapter", name, [url_name |-> name, display_name |-> <<"week", name>>],
              sequentials)

\* the first chapter: one sequential, alone, after an empty sequential, or
\* before a second one
FirstChapters(verticals) ==
    {CourseChapter("ch1", <<CourseSequential("sq1", verticals)>>),
     CourseChapter("ch1", <<CourseSequential("sq0", <<>>),
                            CourseSequential("sq1", verticals)>>),
     CourseChapter("ch1", <<CourseSequential("sq1", verticals),
                            CourseSequential("sq2",
                                <<CourseVertical("v_video", <<"lesson">>,
                                                 <<Leaf("video", "vd1", VideoOk)>>)>>)>>)}

\* later chapters: one without and one with resources
OtherChapters ==
    {CourseChapter("ch2", <<CourseSequential("sq3",
                               <<CourseVertical("v_html", <<"read">>,
                                                <<Leaf("html", "h1", HtmlText)>>)>>)>>),
     CourseChapter("ch3", <<CourseSequential("sq4",
                               <<CourseVertical("v_html_res", <<"files">>,
                                                <<Leaf("html", "h2", HtmlLinks)>>)>>)>>)}

CourseTree(chapters) ==
    Container("course", "course",
              [url_name |-> "course", course |-> "EDRAAK101",
               display_name |-> <<"course">>, course_image |-> "cover.png"],
              chapters)

----------------------------------------------------------------------------
(* Inputs: html verticals handed to transform_html_vertical *)

MaxHtmls == 3

\* html leaves as the pruner leaves them: plain text, a PDF and a document,
\* a document alone, a PDF alone
HtmlChildren ==
    {Pruned(Leaf("html", "h1", HtmlText)),
     Pruned(Leaf("html", "h2", HtmlLinks)),
     Pruned(Leaf("html", "h4",
        <<El("a", [href |-> <<"/static", "notes", ".docx">>], <<"notes">>, <<>>)>>)),
     Pruned(Leaf("html", "h5",
        <<El("a", [href |-> <<"/static", "my_file", ".pdf">>], <<"worksheet">>, <<>>)>>))}

HtmlVertical(title, children) ==
    Container("vertical", "v1", [url_name |-> "v1", display_name |-> title], children)

----------------------------------------------------------------------------
(* Inputs: html items handed to extract_downloadable_resouces_from_html_item *)

MaxLinks == 3

\* links to a file that exists, to one that exists under the name with a
\* space, to one that is missing under both names, and to another host
LinkEls ==
    {El("a", [href |-> <<"/static", "notes", ".docx">>], <<"notes">>, <<>>),
     El("a", [href |-> <<"/static", "my_file", ".pdf">>], <<"worksheet">>, <<>>),
     El("a", [href |-> <<"/static", "gone", ".pdf">>], <<"lost">>, <<>>),
     El("a", [href |-> <<"http://example.org", "paper", ".pdf">>], <<"paper">>, <<>>)}

FrameEls ==
    {El("iframe", [src |-> <<"/static", "my_file", ".pdf">>, title |-> <<"slides">>],
        <<>>, <<>>),
     El("iframe", [src |-> <<"/static", "gone", ".pdf">>], <<>>, <<>>),
     El("iframe", [src |-> <<"http://example.org", "paper", ".pdf">>], <<>>, <<>>)}

HtmlItem(content) == Leaf("html", "h1", content)

----------------------------------------------------------------------------
(* Inputs: calls of a cached function *)

MaxTime == 3

MaxCalls == 3

CacheKeys == {"marhaban", "shukran"}

----------------------------------------------------------------------------
(* Inputs: course directories whose fragment files may refer back to a      *)
(* container above them                                                     *)

\* a reference from the vertical v1 to itself, or to the sequential or the
\* chapter that holds it
BackRefEls ==
    {RefEl("vertical", "v1"), RefEl("sequential", "sq1"), RefEl("chapter", "ch1")}

\* a directory that varies what the vertical refers to and the files that exist
DirVaryingRefs(vc, m) ==
    Without(CourseDir(<<"intro">>, vc, <<RefEl("chapter", "ch1")>>,
                      FullBodyAttrs, DefaultFlatAttrs), m)

----------------------------------------------------------------------------
(* Operations *)

\* add_content_nodes: course_data = extract_course_tree(coursedir), then
\* course_id = course_data['course']; original_tree records what
\* extract_course_tree returned
ExtractCourseTree ==
    /\ pc = "start"
    /\ LET r == extract_course_tree(coursedir)
       IN  IF r.ok
           THEN /\ course_data' = r.val
                /\ original_tree' = r.val
                /\ IF "course" \in DOMAIN r.val
                   THEN pc' = "extracted" /\ error' = error
                   ELSE pc' = "failed" /\ error' = "KeyError"
           ELSE /\ pc' = "failed"
                /\ error' = r.error
                /\ UNCHANGED <<course_data, original_tree>>
    /\ UNCHANGED <<coursedir, clean_tree, vertical_type, transformed_tree, cache>>

\* add_content_nodes: clean_subtree(course_data, coursedir)
CleanSubtree ==
    /\ pc = "extracted"
    /\ LET r == clean_subtree(course_data, coursedir)
       IN  IF r.ok
           THEN /\ pc' = "cleaned"
                /\ course_data' = r.val
                /\ clean_tree' = r.val
                /\ error' = error
           ELSE /\ pc' = "failed"
                /\ error' = r.error
                /\ UNCHANGED <<course_data, clean_tree>>
    /\ UNCHANGED <<coursedir, original_tree, vertical_type, transformed_tree, cache>>

\* clean_subtree applied to its own result
CleanSubtreeAgain ==
    /\ pc = "cleaned"
    /\ LET r == clean_subtree(course_data, coursedir)
       IN  IF r.ok
           THEN /\ pc' = "recleaned"
                /\ course_data' = r.val
                /\ error' = error
           ELSE /\ pc' = "failed"
                /\ error' = r.error
                /\ UNCHANGED course_data
    /\ UNCHANGED <<coursedir, original_tree, clean_tree, vertical_type, transformed_tree, cache>>

\* guess_vertical_type applied to a vertical
GuessVerticalType ==
    /\ pc = "vertical"
    /\ vertical_type' = guess_vertical_type(course_data)
    /\ pc' = "classified"
    /\ UNCHANGED <<coursedir, course_data, original_tree, clean_tree, error, transformed_tree, cache>>

\* process_video applied to a video node
ProcessVideo ==
    /\ pc = "video"
    /\ LET r == process_video(course_data)
       IN  IF r.ok
           THEN /\ pc' = "video_done"
                /\ course_data' = r.val
                /\ error' = error
           ELSE /\ pc' = "failed"
                /\ error' = r.error
                /\ UNCHANGED course_data
    /\ UNCHANGED <<coursedir, original_tree, clean_tree, vertical_type, transformed_tree, cache>>

\* transform_vertical_to_exercise applied to a vertical, as transform_tree
\* calls it (no parent_title); course_data is the vertical after the call
TransformVerticalToExercise ==
    /\ pc = "exercise_vertical"
    /\ LET r == transform_vertical_to_exercise(course_data, NoParentTitle)
       IN  IF r.ok
           THEN /\ pc' = "exercise_done"
                /\ transformed_tree' = r.val.node
                /\ course_data' = r.val.vertical
                /\ error' = error
           ELSE /\ pc' = "failed"
                /\ error' = r.error
                /\ UNCHANGED <<course_data, transformed_tree>>
    /\ UNCHANGED <<coursedir, original_tree, clean_tree, vertical_type, cache>>

\* transform_tree's last step: flatten_transformed_tree(course_dict)
FlattenTransformedTree ==
    /\ pc = "target"
    /\ transformed_tree' = flatten_transformed_tree(course_data)
    /\ pc' = "flattened"
    /\ UNCHANGED <<coursedir, course_data, original_tree, clean_tree, vertical_type,
                   error, cache>>

\* flatten_transformed_tree applied to its own result; course_data is the
\* second result
FlattenAgain ==
    /\ pc = "flattened"
    /\ course_data' = flatten_transformed_tree(transformed_tree)
    /\ pc' = "reflattened"
    /\ UNCHANGED <<coursedir, original_tree, clean_tree, vertical_type, error,
                   transformed_tree, cache>>

\* add_content_nodes: transform_tree(clean_tree, coursedir); course_data is
\* the cleaned tree object after the call
TransformTree ==
    /\ pc = "cleaned"
    /\ LET r == transform_tree(course_data, coursedir)
       IN  IF r.ok
           THEN /\ pc' = "transformed"
                /\ transformed_tree' = r.val.tree
                /\ course_data' = r.val.source
                /\ error' = error
           ELSE /\ pc' = "failed"
                /\ error' = r.error
                /\ UNCHANGED <<course_data, transformed_tree>>
    /\ UNCHANGED <<coursedir, original_tree, clean_tree, vertical_type, cache>>

\* transform_html_vertical applied to a vertical; transformed_tree holds the
\* returned pair
TransformHtmlVertical ==
    /\ pc = "html_vertical"
    /\ LET r == transform_html_vertical(course_data)
       IN  IF r.ok
           THEN /\ pc' = "html_done"
                /\ transformed_tree' = r.val
                /\ error' = error
           ELSE /\ pc' = "failed"
                /\ error' = r.error
                /\ UNCHANGED transformed_tree
    /\ UNCHANGED <<coursedir, course_data, original_tree, clean_tree, vertical_type, cache>>

\* extract_downloadable_resouces_from_html_item applied to an html item;
\* transformed_tree holds the returned list
ExtractDownloadableResources ==
    /\ pc = "html_item"
    /\ LET r == extract_downloadable_resouces_from_html_item(course_data, coursedir)
       IN  IF r.ok
           THEN /\ pc' = "resources_done"
                /\ transformed_tree' = [kind |-> "resources", resources |-> r.val]
                /\ error' = error
           ELSE /\ pc' = "failed"
                /\ error' = r.error
                /\ UNCHANGED transformed_tree
    /\ UNCHANGED <<coursedir, course_data, original_tree, clean_tree, vertical_type, cache>>

\* one call of the wrapper that cached() returns
CallCached ==
    /\ pc = "cache"
    /\ cache.count < MaxCalls
    /\ \E args \in CacheKeys :
         LET r == cached_wrapper(cache, args)
         IN  IF r.ok
             THEN /\ cache' = [r.val EXCEPT !.count = cache.count + 1]
                  /\ pc' = pc
                  /\ error' = error
             ELSE /\ cache' = [cache EXCEPT !.key = args, !.count = cache.count + 1]
                  /\ pc' = "failed"
                  /\ error' = r.error
    /\ UNCHANGED <<coursedir, course_data, original_tree, clean_tree, vertical_type,
                   transformed_tree>>

\* time() moves on between two calls
ClockTick ==
    /\ pc = "cache"
    /\ cache.now < MaxTime
    /\ cache' = [cache EXCEPT !.now = cache.now + 1]
    /\ UNCHANGED <<pc, coursedir, course_data, original_tree, clean_tree, vertical_type,
                   error, transformed_tree>>

\* the cache file is damaged between two calls: an entry reads back as
\* something the wrapper did not store
DamageEntry ==
    /\ pc = "cache"
    /\ \E h \in DOMAIN cache.store, shape \in DamagedShapes :
          /\ cache.store[h].shape = "pair"
          /\ cache' = [cache EXCEPT !.store = DictSet(cache.store, h, [shape |-> shape])]
    /\ UNCHANGED <<pc, coursedir, course_data, original_tree, clean_tree, vertical_type,
                   error, transformed_tree>>

\* parse_questions_from_problem applied to a problem node; course_data is
\* the node after the call
ParseQuestionsFromProblem ==
    /\ pc = "problem"
    /\ LET r == parse_questions_from_problem(course_data)
       IN  IF r.ok
           THEN /\ pc' = "parsed"
                /\ course_data' = r.val
                /\ error' = error
           ELSE /\ pc' = "failed"
                /\ error' = r.error
                /\ UNCHANGED course_data
    /\ UNCHANGED <<coursedir, original_tree, clean_tree, vertical_type, transformed_tree,
                   cache>>

----------------------------------------------------------------------------
(* Specifications *)

\* one course of add_content_nodes: extract, then clean
Init ==
    /\ pc = "start"
    /\ \/ \E t \in VerticalTitles, vc \in SeqsUpTo(VerticalChildEls, MaxChildren),
             cc \in CourseChildEls, m \in MissingSets :
               coursedir = DirVaryingChildren(t, vc, cc, m)
       \/ \E bk \in SUBSET DOMAIN FullBodyAttrs, fk \in SUBSET DOMAIN FullFlatAttrs :
               coursedir = DirVaryingAttrs(bk, fk)
    /\ course_data = NoTree
    /\ original_tree = NoTree
    /\ clean_tree = NoTree
    /\ vertical_type = NoType
    /\ transformed_tree = NoTree
    /\ cache = NoCache
    /\ error = "none"

Next == ExtractCourseTree \/ CleanSubtree

Spec == Init /\ [][Next]_vars

\* clean_subtree as a function of a resolved tree, applied once and again
InitPrune ==
    /\ pc = "extracted"
    /\ coursedir = StaticDir
    /\ \E a \in VerticalAttrs, c \in SeqsUpTo(PruneLeaves, MaxChildren) :
          \E children \in Arrangements(Vertical(a, c)) :
             course_data = PruneTree(children)
    /\ original_tree = course_data
    /\ clean_tree = NoTree
    /\ vertical_type = NoType
    /\ transformed_tree = NoTree
    /\ cache = NoCache
    /\ error = "none"

NextPrune == CleanSubtree \/ CleanSubtreeAgain

SpecPrune == InitPrune /\ [][NextPrune]_vars

\* guess_vertical_type as a function of a vertical
InitGuess ==
    /\ pc = "vertical"
    /\ coursedir = StaticDir
    /\ \E a \in VerticalAttrs, c \in SeqsUpTo(PruneLeaves, MaxChildren) :
          course_data = Vertical(a, c)
    /\ original_tree = course_data
    /\ clean_tree = NoTree
    /\ vertical_type = NoType
    /\ transformed_tree = NoTree
    /\ cache = NoCache
    /\ error = "none"

NextGuess == GuessVerticalType

SpecGuess == InitGuess /\ [][NextGuess]_vars

\* process_video as a function of a video node
InitVideo ==
    /\ pc = "video"
    /\ coursedir = StaticDir
    /\ \E a \in VideoAttrs, c \in SeqsUpTo(VideoEls, MaxVideoEls) :
          course_data = VideoNode(a, c)
    /\ original_tree = course_data
    /\ clean_tree = NoTree
    /\ vertical_type = NoType
    /\ transformed_tree = NoTree
    /\ cache = NoCache
    /\ error = "none"

NextVideo == ProcessVideo

SpecVideo == InitVideo /\ [][NextVideo]_vars

\* transform_vertical_to_exercise as a function of a pruned vertical
InitExercise ==
    /\ pc = "exercise_vertical"
    /\ coursedir = StaticDir
    /\ \E c \in SeqsUpTo(ExerciseChildren, MaxExerciseChildren) :
          course_data = ExerciseVertical(c)
    /\ original_tree = course_data
    /\ clean_tree = course_data
    /\ vertical_type = NoType
    /\ transformed_tree = NoTree
    /\ cache = NoCache
    /\ error = "none"

NextExercise == TransformVerticalToExercise

SpecExercise == InitExercise /\ [][NextExercise]_vars

\* flatten_transformed_tree as a function of a target tree, once and again
InitFlatten ==
    /\ pc = "target"
    /\ coursedir = StaticDir
    /\ \E c \in SeqsUpTo(TargetLevel1, MaxTopNodes) : course_data = TargetTree(c)
    /\ original_tree = course_data
    /\ clean_tree = NoTree
    /\ vertical_type = NoType
    /\ transformed_tree = NoTree
    /\ cache = NoCache
    /\ error = "none"

NextFlatten == FlattenTransformedTree \/ FlattenAgain

SpecFlatten == InitFlatten /\ [][NextFlatten]_vars

\* a resolved course tree is cleaned and then transformed
InitTransform ==
    /\ pc = "extracted"
    /\ coursedir = StaticDir
    /\ \E vs \in SeqsUpTo(CourseVerticals, MaxVerticals) :
         \E first \in FirstChapters(vs), rest \in SeqsUpTo(OtherChapters, MaxChapters - 1) :
            course_data = CourseTree(<<first>> \o rest)
    /\ original_tree = course_data
    /\ clean_tree = NoTree
    /\ vertical_type = NoType
    /\ transformed_tree = NoTree
    /\ cache = NoCache
    /\ error = "none"

NextTransform == CleanSubtree \/ TransformTree

SpecTransform == InitTransform /\ [][NextTransform]_vars

\* transform_html_vertical as a function of a vertical of html children
InitHtml ==
    /\ pc = "html_vertical"
    /\ coursedir = StaticDir
    /\ \E t \in {<<"read">>, <<"files">>}, c \in SeqsUpTo(HtmlChildren, MaxHtmls) :
          course_data = HtmlVertical(t, c)
    /\ original_tree = course_data
    /\ clean_tree = course_data
    /\ vertical_type = NoType
    /\ transformed_tree = NoTree
    /\ cache = NoCache
    /\ error = "none"

NextHtml == TransformHtmlVertical

SpecHtml == InitHtml /\ [][NextHtml]_vars

\* extract_downloadable_resouces_from_html_item as a function of an html
\* item: a list of links, or a frame before a list of links
InitResources ==
    /\ pc = "html_item"
    /\ coursedir = StaticDir
    /\ \/ \E links \in SeqsUpTo(LinkEls, MaxLinks) : course_data = HtmlItem(links)
       \/ \E frame \in FrameEls, links \in SeqsUpTo(LinkEls, 1) :
             course_data = HtmlItem(<<frame>> \o links)
    /\ original_tree = course_data
    /\ clean_tree = NoTree
    /\ vertical_type = NoType
    /\ transformed_tree = NoTree
    /\ cache = NoCache
    /\ error = "none"

NextResources == ExtractDownloadableResources

SpecResources == InitResources /\ [][NextResources]_vars

\* calls of a cached function over time, on a cache file that can be
\* damaged between calls
InitCache ==
    /\ pc = "cache"
    /\ coursedir = StaticDir
    /\ course_data = NoTree
    /\ original_tree = NoTree
    /\ clean_tree = NoTree
    /\ vertical_type = NoType
    /\ transformed_tree = NoTree
    /\ cache = NoCache
    /\ error = "none"

NextCache == CallCached \/ ClockTick \/ DamageEntry

SpecCache == InitCache /\ [][NextCache]_vars

\* parse_questions_from_problem as a function of a problem file
InitQuestions ==
    /\ pc = "problem"
    /\ coursedir = StaticDir
    /\ \E blocks \in SeqsUpTo(QuestionBlocks, MaxBlocks) :
          course_data = ProblemNode("p1", blocks)
    /\ original_tree = course_data
    /\ clean_tree = NoTree
    /\ vertical_type = NoType
    /\ transformed_tree = NoTree
    /\ cache = NoCache
    /\ error = "none"

NextQuestions == ParseQuestionsFromProblem

SpecQuestions == InitQuestions /\ [][NextQuestions]_vars

\* extract_course_tree over reference graphs with and without cycles
InitBuild ==
    /\ pc = "start"
    /\ \E vc \in SeqsUpTo(VerticalChildEls \cup BackRefEls, MaxChildren),
          m \in MissingSets :
            coursedir = DirVaryingRefs(vc, m)
    /\ course_data = NoTree
    /\ original_tree = NoTree
    /\ clean_tree = NoTree
    /\ vertical_type = NoType
    /\ transformed_tree = NoTree
    /\ cache = NoCache
    /\ error = "none"

NextBuild == ExtractCourseTree

SpecBuild == InitBuild /\ [][NextBuild]_vars

----------------------------------------------------------------------------
(* Properties: helpers *)

\* every node of a tree
RECURSIVE SubNodes(_)
SubNodes(n) ==
    {n} \cup (IF "children" \in DOMAIN n
              THEN UNION {SubNodes(n["children"][i]) : i \in DOMAIN n["children"]}
              ELSE {})

\* the child elements of a fragment file's root element, text nodes left out
ChildElements(file) == SelectSeq(file[1].children, LAMBDA e : e.name # TextNode)

\* the identifier a child element declares, and the one a resolved child carries
ElementIdent(e) == IF e.name = "wiki" THEN e.attrs["slug"] ELSE e.attrs["url_name"]

NodeIdent(n) ==
    IF n["kind"] = "wiki" THEN n["slug"]
    ELSE IF "id" \in DOMAIN n THEN n["id"] ELSE n["url_name"]

\* the fragment file a container node of the extracted tree was loaded from
SourceFile(n) == coursedir[PathOf(n["kind"], n["id"], "xml")]

BodyRoot == coursedir[PathOf("course", "course", "xml")][1]

FlatRoot == coursedir[PathOf(NoKind, "course", "xml")][1]

\* the paths of the fragment files referenced below a container file
RECURSIVE ReferencedBelow(_, _)
ReferencedBelow(dir, path) ==
    IF path \notin DOMAIN dir THEN {}
    ELSE LET refs == {e \in {ChildElements(dir[path])[i] :
                                 i \in DOMAIN ChildElements(dir[path])} : e.name # "wiki"}
             PathFor(e) == PathOf(e.name, e.attrs["url_name"],
                                  IF e.name = "html" THEN "html" ELSE "xml")
         IN  {PathFor(e) : e \in refs}
             \cup UNION {ReferencedBelow(dir, PathFor(e)) :
                            e \in {x \in refs : x.name \notin {"html", "video", "problem"}}}

----------------------------------------------------------------------------
(* Properties *)

\* C1: every container node of the extracted tree has exactly one resolved
\* child per child element of its fragment file's root element, in markup
\* order, whatever the kinds of the children.
C1_ChildrenFollowMarkup ==
    original_tree # NoTree =>
        \A n \in SubNodes(original_tree) :
            "id" \in DOMAIN n =>
                LET els == ChildElements(SourceFile(n))
                IN  /\ Len(n["children"]) = Len(els)
                    /\ \A i \in DOMAIN els :
                          /\ n["children"][i]["kind"] = els[i].name
                          /\ NodeIdent(n["children"][i]) = ElementIdent(els[i])

\* C1 witness: a vertical was resolved whose two children have different
\* kinds, beside a course root with a wiki before and after its chapter.
C1_Witness ==
    /\ pc = "extracted"
    /\ Len(original_tree["children"]) = 3
    /\ \E n \in SubNodes(original_tree) :
          /\ n["kind"] = "vertical"
          /\ Len(n["children"]) = 2
          /\ n["children"][1]["kind"] = "discussion"
          /\ n["children"][2]["kind"] = "problem"

\* C2: the extracted root has the children of the body file, the flat
\* file's value for every attribute of the flat file, and the body file's
\* value for every attribute only the body file has.
C2_RootIsMerge ==
    original_tree # NoTree =>
        LET els == ChildElements(<<BodyRoot>>)
        IN  /\ Len(original_tree["children"]) = Len(els)
            /\ \A i \in DOMAIN els :
                  /\ original_tree["children"][i]["kind"] = els[i].name
                  /\ NodeIdent(original_tree["children"][i]) = ElementIdent(els[i])
            /\ \A k \in DOMAIN FlatRoot.attrs :
                  k \in DOMAIN original_tree /\ original_tree[k] = FlatRoot.attrs[k]
            /\ \A k \in (DOMAIN BodyRoot.attrs) \ (DOMAIN FlatRoot.attrs) :
                  k \in DOMAIN original_tree /\ original_tree[k] = BodyRoot.attrs[k]

\* C2 witness: both files declare `course` with different values, and the
\* body file alone declares `course_image`.
C2_Witness ==
    /\ pc = "extracted"
    /\ "course" \in DOMAIN BodyRoot.attrs
    /\ "course" \in DOMAIN FlatRoot.attrs
    /\ BodyRoot.attrs["course"] # FlatRoot.attrs["course"]
    /\ "course_image" \in DOMAIN BodyRoot.attrs
    /\ original_tree["course"] = "FA101"
    /\ original_tree["course_image"] = "cover_image.png"

\* C3: when a fragment file referenced below the course root is missing,
\* extraction ends in an error and no tree, not even a partial one, exists.
C3_MissingFileAborts ==
    (/\ pc # "start"
     /\ \E p \in ReferencedBelow(coursedir, PathOf("course", "course", "xml")) :
           p \notin DOMAIN coursedir)
    => /\ pc = "failed"
       /\ error \in {"ValueError: XML file not found", "ValueError: HTML file not found",
                      "ValueError: Video XML file not found"}
       /\ course_data = NoTree
       /\ original_tree = NoTree

\* C3 witness: the run failed on a missing video file that is the second
\* child of the vertical.
C3_Witness ==
    /\ pc = "failed"
    /\ error = "ValueError: Video XML file not found"
    /\ PathOf("video", "vd1", "xml") \notin DOMAIN coursedir
    /\ PathOf("vertical", "v1", "xml") \in DOMAIN coursedir
    /\ Len(ChildElements(coursedir[PathOf("vertical", "v1", "xml")])) = 2
    /\ ChildElements(coursedir[PathOf("vertical", "v1", "xml")])[1].name = "html"

\* the kinds of the children of a node
ChildKinds(n) ==
    IF "children" \in DOMAIN n
    THEN {n["children"][i]["kind"] : i \in DOMAIN n["children"]}
    ELSE {}

VideoChildren == original_tree["content"][1].children

YoutubeProfiles ==
    SelectSeq(VideoChildren,
              LAMBDA e : e.name = "encoded_video" /\ e.attrs["profile"] = "youtube")

Sources == SelectSeq(VideoChildren, LAMBDA e : e.name = "source")

LegacyId ==
    IF "youtube_id_1_0" \in DOMAIN original_tree["content"][1].attrs
    THEN original_tree["content"][1].attrs["youtube_id_1_0"] ELSE ""

\* C5: process_video takes the youtube profile first (youtube_id, no path),
\* else the source element (path, no youtube_id), else a non-empty legacy
\* attribute (youtube_id), and fails when none of the three is there.
C5_VideoRulePriority ==
    pc # "video" =>
        LET has_id == "youtube_id" \in DOMAIN course_data
            has_path == "path" \in DOMAIN course_data
        IN  IF YoutubeProfiles # <<>>
            THEN /\ pc = "video_done"
                 /\ has_id /\ ~has_path
                 /\ course_data["youtube_id"] = YoutubeProfiles[1].attrs["url"]
            ELSE IF Sources # <<>>
            THEN /\ pc = "video_done"
                 /\ has_path /\ ~has_id
                 /\ course_data["path"] = Sources[1].attrs["src"]
            ELSE IF LegacyId # ""
            THEN /\ pc = "video_done"
                 /\ has_id /\ ~has_path
                 /\ course_data["youtube_id"] = LegacyId
            ELSE /\ pc = "failed"
                 /\ error = "ValueError: Unrecognized video format encountered"
                 /\ course_data = original_tree

\* C5 witness: a video with a source element before its youtube profile and
\* with a legacy attribute was processed.
C5_Witness ==
    /\ pc = "video_done"
    /\ Len(VideoChildren) = 2
    /\ VideoChildren[1].name = "source"
    /\ YoutubeProfiles # <<>>
    /\ LegacyId = "yt_legacy"
    /\ course_data["youtube_id"] = "yt_encoded"

\* the title tests of the classifier, on the vertical given to it
TitleHas(phrases) ==
    /\ "display_name" \in DOMAIN original_tree
    /\ \E ph \in phrases : StrContains(ph, original_tree["display_name"])

\* C6: guess_vertical_type depends on the title and the set of the
\* children's kinds only, in the order learning-objectives phrase,
\* knowledge-check phrase, discussion child, video child, problem child,
\* all children html, and unrecognized otherwise.
C6_ClassifierPriority ==
    pc = "classified" =>
        LET kinds == ChildKinds(original_tree)
        IN  vertical_type =
              IF TitleHas(EDRAAK_STRINGS.learning_objectives)
              THEN "learning_objectives_vertical"
              ELSE IF TitleHas(EDRAAK_STRINGS.knowledge_check)
              THEN "knowledge_check_vertical"
              ELSE IF "discussion" \in kinds THEN "discussion_vertical"
              ELSE IF "video" \in kinds THEN "video_vertical"
              ELSE IF "problem" \in kinds THEN "test_vertical"
              ELSE IF kinds # {} /\ kinds \subseteq {"html"} THEN "html_vertical"
              ELSE None

\* C6 witness: a vertical with a knowledge-check title and with a discussion
\* and a video child was classified knowledge_check_vertical.
C6_Witness ==
    /\ pc = "classified"
    /\ vertical_type = "knowledge_check_vertical"
    /\ original_tree["display_name"] = KC
    /\ ChildKinds(original_tree) = {"discussion", "video"}

\* tests 1 and 2 of the filter, stated on the child alone
DroppedByKind(c) == c["kind"] \in SKIP_KINDS

DroppedByTitle(c) ==
    /\ "display_name" \in DOMAIN c
    /\ \E t \in TITLES_TO_DROP : StrContains(t, c["display_name"])

Filtered(c) == DroppedByKind(c) \/ DroppedByTitle(c)

ClassOf(c) == IF c["kind"] = "vertical" THEN guess_vertical_type(c) ELSE "<leaf>"

\* the children that the filter recurses into and keeps
Survivors(n) ==
    IF "children" \notin DOMAIN n THEN <<>>
    ELSE SelectSeq(n["children"],
                   LAMBDA c : /\ ~Filtered(c)
                              /\ ClassOf(c) \notin {None, "discussion_vertical",
                                                    "learning_objectives_vertical"})

\* a vertical that passes tests 1 and 2 and classifies as unrecognized, at
\* any depth the filter gets to
RECURSIVE HasUnrecognized(_)
HasUnrecognized(n) ==
    /\ "children" \in DOMAIN n
    /\ \/ \E i \in DOMAIN n["children"] :
             ~Filtered(n["children"][i]) /\ ClassOf(n["children"][i]) = None
       \/ \E i \in DOMAIN Survivors(n) : HasUnrecognized(Survivors(n)[i])

\* clean is orig with, at every level, exactly the survivors in their order
RECURSIVE PrunedFrom(_, _)
PrunedFrom(clean, orig) ==
    LET kept == Survivors(orig)
    IN  /\ clean["kind"] = orig["kind"]
        /\ NodeIdent(clean) = NodeIdent(orig)
        /\ Len(clean["children"]) = Len(kept)
        /\ \A i \in DOMAIN kept : PrunedFrom(clean["children"][i], kept[i])

\* C7: a child dropped by kind or by title is neither classified nor
\* recursed into (a tree all of whose top children are so dropped is pruned
\* to no children, whatever they hold); a remaining vertical that is
\* unrecognized aborts the prune and leaves no tree; otherwise the result
\* holds exactly the surviving children, in their original order.
C7_FilterOrderAndAbort ==
    /\ (pc # "extracted" /\ \A i \in DOMAIN original_tree["children"] :
                                Filtered(original_tree["children"][i]))
          => clean_tree # NoTree /\ clean_tree["children"] = <<>>
    /\ HasUnrecognized(original_tree)
          => clean_tree = NoTree /\ pc \in {"extracted", "failed"}
    /\ clean_tree # NoTree => PrunedFrom(clean_tree, original_tree)

\* C7 witness: the prune succeeded on a tree whose first child is a
\* drop-titled vertical that would be unrecognized, and whose second child
\* is a kept vertical that lost a wiki and kept two children in order.
C7_Witness ==
    /\ pc = "cleaned"
    /\ Len(original_tree["children"]) = 2
    /\ DroppedByTitle(original_tree["children"][1])
    /\ guess_vertical_type(original_tree["children"][1]) = None
    /\ Len(clean_tree["children"]) = 1
    /\ clean_tree["children"][1]["id"] = "v1"
    /\ Len(original_tree["children"][2]["children"]) = 2
    /\ \E i \in 1..2 : DroppedByKind(original_tree["children"][2]["children"][i])
    /\ Len(clean_tree["children"][1]["children"]) = 1

\* the top children that pass tests 1 and 2 and classify as the given type
TopVerticals(vtype) ==
    SelectSeq(original_tree["children"],
              LAMBDA c : ~Filtered(c) /\ ClassOf(c) = vtype)

\* a hoisted vertical the claim speaks of: no children, or an html first child
Hoistable(c) == c["children"] = <<>> \/ c["children"][1]["kind"] = "html"

\* C8 as claimed: when every top child is filtered, a discussion vertical,
\* or a learning-objectives vertical that is empty or starts with an html
\* child, the prune succeeds, none of them is kept, and the description is
\* the text of the first child of the last learning-objectives vertical
\* that has one.
C8_HoistNeverAborts ==
    LET los == TopVerticals("learning_objectives_vertical")
        full == SelectSeq(los, LAMBDA c : c["children"] # <<>>)
    IN  (/\ pc # "extracted"
         /\ los # <<>>
         /\ \A i \in DOMAIN los : Hoistable(los[i])
         /\ \A i \in DOMAIN original_tree["children"] :
               LET c == original_tree["children"][i]
               IN  Filtered(c) \/ ClassOf(c) \in {"discussion_vertical",
                                                   "learning_objectives_vertical"})
        => /\ clean_tree # NoTree
           /\ clean_tree["children"] = <<>>
           /\ full # <<>> =>
                 /\ "description" \in DOMAIN clean_tree
                 /\ clean_tree["description"]
                      = extract_text_from_html_item(full[Len(full)]["children"][1]).val

\* C8 what the code does: the same holds when every learning-objectives
\* vertical has an html first child.
C8_HoistOfFirstChild ==
    LET los == TopVerticals("learning_objectives_vertical")
    IN  (/\ pc # "extracted"
         /\ los # <<>>
         /\ \A i \in DOMAIN los :
               los[i]["children"] # <<>> /\ los[i]["children"][1]["kind"] = "html"
         /\ \A i \in DOMAIN original_tree["children"] :
               LET c == original_tree["children"][i]
               IN  Filtered(c) \/ ClassOf(c) \in {"discussion_vertical",
                                                   "learning_objectives_vertical"})
        => /\ clean_tree # NoTree
           /\ clean_tree["children"] = <<>>
           /\ "description" \in DOMAIN clean_tree
           /\ clean_tree["description"]
                = extract_text_from_html_item(los[Len(los)]["children"][1]).val

\* C8 witness: the prune of a tree whose only child is a learning-objectives
\* vertical without children stopped on the index of its first child.
C8_Witness ==
    /\ pc = "failed"
    /\ error = "IndexError"
    /\ clean_tree = NoTree
    /\ Len(original_tree["children"]) = 1
    /\ ~Filtered(original_tree["children"][1])
    /\ ClassOf(original_tree["children"][1]) = "learning_objectives_vertical"
    /\ original_tree["children"][1]["children"] = <<>>

\* the response elements parse_questions_from_problem makes questions of
ResponseElements(problem) ==
    FindAll(problem["content"], "multiplechoiceresponse")
      \o FindAll(problem["content"], "choiceresponse")

ProblemNodes(tree) == {n \in SubNodes(tree) : n["kind"] = "problem"}

C10_PruneIdempotent ==
    (clean_tree # NoTree /\ pc # "cleaned")
        => pc = "recleaned" /\ course_data = clean_tree

\* C10 what the code does: the second run returns the same tree whenever
\* it succeeds, and it fails only on a kept vertical that the first run
\* left without children.
C10_SecondRunSameOrAbort ==
    (clean_tree # NoTree /\ pc # "cleaned")
        => \/ pc = "recleaned" /\ course_data = clean_tree
           \/ /\ pc = "failed"
              /\ error = "ValueError: unrecognized vertical type"
              /\ \E n \in SubNodes(clean_tree) :
                    /\ n["kind"] = "vertical"
                    /\ n["children"] = <<>>
                    /\ ~DroppedByTitle(n)
                    /\ guess_vertical_type(n) = None

\* C10 witness: the first run kept an html vertical and removed its only
\* child by title; the second run stopped on that vertical.
C10_Witness ==
    /\ pc = "failed"
    /\ clean_tree # NoTree
    /\ \E i \in DOMAIN original_tree["children"] :
          LET v == original_tree["children"][i]
          IN  /\ guess_vertical_type(v) = "html_vertical"
              /\ \A j \in DOMAIN v["children"] : DroppedByTitle(v["children"][j])
    /\ \E i \in DOMAIN clean_tree["children"] :
          clean_tree["children"][i]["children"] = <<>>

\* the number of response elements in the problem children of a vertical
RECURSIVE CountResponses(_)
CountResponses(children) ==
    IF children = <<>> THEN 0
    ELSE (IF children[1]["kind"] = "problem"
          THEN Len(ResponseElements(children[1])) ELSE 0)
         + CountResponses(Tail(children))

C16_FlattenIdempotent ==
    pc = "reflattened" => course_data = transformed_tree

\* C16 witness: a chain of three single-child levels with similar titles
\* was flattened to a node that still has one similar child, and the second
\* pass collapsed it again.
C16_Witness ==
    /\ pc = "reflattened"
    /\ original_tree["children"]
         = <<Topic(TitleA, <<Topic(TitleA2, <<TargetLeaf(TitleA)>>)>>)>>
    /\ transformed_tree["children"] = <<Topic(TitleA2, <<TargetLeaf(TitleA)>>)>>
    /\ course_data["children"] = <<TargetLeaf(TitleA)>>

----------------------------------------------------------------------------
(* Properties of transform_tree *)

\* the <<sequential, vertical>> pairs the loops of transform_tree visit
VisitedVerticals(tree) ==
    UNION {UNION {{<<ch["children"][j], ch["children"][j]["children"][k]>> :
                       k \in DOMAIN ch["children"][j]["children"]} :
                  j \in DOMAIN ch["children"]} :
           ch \in {tree["children"][i] : i \in DOMAIN tree["children"]}}

\* the output nodes of a kind
OutputNodes(kind) == {n \in SubNodes(transformed_tree) : n["kind"] = kind}

\* node n is what vertical v became, whatever its title
DerivedFrom(n, v) ==
    LET vtype == guess_vertical_type(v)
    IN  \/ /\ n["kind"] = "exercise"
           /\ vtype \in {"knowledge_check_vertical", "test_vertical"}
           /\ n["source_id"] = v["url_name"]
        \/ /\ n["kind"] = "video"
           /\ vtype = "video_vertical"
           /\ \E i \in DOMAIN v["children"] :
                 /\ v["children"][i]["kind"] = "video"
                 /\ n["source_id"] = v["children"][i]["youtube_id"]
           /\ n["description"] = IF v["children"][1]["kind"] = "html"
                                 THEN extract_text_from_html_item(v["children"][1]).val
                                 ELSE <<>>

\* the verticals that become an exercise or a video
TitledVerticals ==
    {p \in VisitedVerticals(clean_tree) :
        guess_vertical_type(p[2]) \in {"knowledge_check_vertical", "test_vertical",
                                       "video_vertical"}}

\* C12 as stated: every exercise node and every video node of the
\* transformed tree is titled with the title of the enclosing sequential
\* followed by the vertical's own title.
C12_TitlesParentQualified ==
    pc = "transformed" =>
        \A n \in OutputNodes("exercise") \cup OutputNodes("video") :
            \E p \in TitledVerticals :
                /\ DerivedFrom(n, p[2])
                /\ n["title"] = p[1]["display_name"] \o p[2]["display_name"]

\* C12 as the code has it: every exercise node and every video node of
\* the transformed tree is titled with the vertical's own title alone, and
\* every exercise or video vertical has such a node.
C12_TitlesAreVerticalTitles ==
    pc = "transformed" =>
        /\ \A n \in OutputNodes("exercise") \cup OutputNodes("video") :
              \E p \in TitledVerticals :
                  DerivedFrom(n, p[2]) /\ n["title"] = p[2]["display_name"]
        /\ \A p \in TitledVerticals :
              \E n \in OutputNodes("exercise") \cup OutputNodes("video") :
                  DerivedFrom(n, p[2]) /\ n["title"] = p[2]["display_name"]

\* an exercise and a video were produced below a titled sequential
C12_Witness ==
    /\ pc = "transformed"
    /\ OutputNodes("exercise") # {}
    /\ OutputNodes("video") # {}
    /\ \A p \in TitledVerticals : p[1]["display_name"] # <<>>

----------------------------------------------------------------------------
(* Properties of transform_html_vertical *)

FirstHtml == course_data["children"][1]

FirstHtmlResources ==
    IF "downloadable_resources" \in DOMAIN FirstHtml
    THEN FirstHtml["downloadable_resources"] ELSE <<>>

\* C13: the nodes and pool resources transform_html_vertical returns are
\* those of the first html child alone: with resources, one document node
\* per PDF resource and the other resources to the pool; without, exactly
\* one html bundle titled after the vertical; nothing from a later child.
C13_OnlyFirstHtmlProcessed ==
    pc = "html_done" =>
        LET nodes == transformed_tree.nodes
            pool == transformed_tree.downloadable_resources
            pdfs == SelectSeq(FirstHtmlResources, LAMBDA r : r["ext"] = "pdf")
            others == SelectSeq(FirstHtmlResources, LAMBDA r : r["ext"] # "pdf")
        IN  IF FirstHtmlResources # <<>>
            THEN /\ Len(nodes) = Len(pdfs)
                 /\ \A i \in DOMAIN nodes :
                       /\ nodes[i]["kind"] = "document"
                       /\ nodes[i]["source_id"] = pdfs[i]["relhref"]
                       /\ nodes[i]["title"] = pdfs[i]["title"]
                 /\ pool = others
            ELSE /\ Len(nodes) = 1
                 /\ nodes[1]["kind"] = "html5"
                 /\ nodes[1]["title"] = course_data["display_name"]
                 /\ nodes[1]["source_id"] = FirstHtml["url_name"]
                 /\ pool = <<>>

\* a vertical whose first html child has no resources and whose later
\* children have PDF and other resources was transformed
C13_Witness ==
    /\ pc = "html_done"
    /\ Len(course_data["children"]) >= 2
    /\ FirstHtmlResources = <<>>
    /\ \E i \in 2..Len(course_data["children"]) :
          \E j \in DOMAIN course_data["children"][i]["downloadable_resources"] :
              course_data["children"][i]["downloadable_resources"][j]["ext"] = "pdf"

----------------------------------------------------------------------------
(* Properties of the chapter resource pool *)

\* the resources a vertical hands to the pool of its chapter
VerticalPool(v) ==
    LET vtype == guess_vertical_type(v)
        Resources(c) == IF c["kind"] = "html" /\ "downloadable_resources" \in DOMAIN c
                        THEN c["downloadable_resources"] ELSE <<>>
    IN  IF vtype = "video_vertical"
        THEN ConcatAll([k \in DOMAIN v["children"] |-> Resources(v["children"][k])])
        ELSE IF vtype = "html_vertical"
        THEN SelectSeq(Resources(v["children"][1]), LAMBDA r : r["ext"] # "pdf")
        ELSE <<>>

\* the pool of a chapter, from its own verticals only
ChapterPool(chapter) ==
    ConcatAll([j \in DOMAIN chapter["children"] |->
        ConcatAll([k \in DOMAIN chapter["children"][j]["children"] |->
            VerticalPool(chapter["children"][j]["children"][k])])])

IsResourcesBundle(n) ==
    n["kind"] = "html5" /\ n["title"] = EDRAAK_STRINGS.downloadable_resources

\* C14: the node of a chapter has a "Downloadable Resources" bundle iff the
\* pool of the chapter's own video and html verticals is non-empty; there
\* is then exactly one, it is the last child of the chapter topic, and it
\* packs the resources of that chapter and of no other.
C14_BundleIffChapterPool ==
    pc = "transformed" =>
        \A i \in DOMAIN clean_tree["children"] :
            LET chapter == clean_tree["children"][i]
                out == transformed_tree["children"][i]
                pool == ChapterPool(chapter)
            IN  IF pool = <<>>
                THEN \A n \in SubNodes(out) : ~IsResourcesBundle(n)
                ELSE /\ out["kind"] = "topic"
                     /\ out["source_id"] = chapter["url_name"]
                     /\ {k \in DOMAIN out["children"] :
                            IsResourcesBundle(out["children"][k])}
                          = {Len(out["children"])}
                     /\ \A n \in SubNodes(out) :
                            IsResourcesBundle(n) => n = out["children"][Len(out["children"])]
                     /\ LET zip == out["children"][Len(out["children"])]["files"][1]["path"]
                        IN  zip.files = [k \in DOMAIN pool |->
                                            [srcpath |-> pool[k]["relhref"],
                                             filename |-> pool[k]["filename"]]]

\* two chapters were transformed, one with resources and one without
C14_Witness ==
    /\ pc = "transformed"
    /\ Len(clean_tree["children"]) = 2
    /\ ChapterPool(clean_tree["children"][1]) # <<>>
    /\ ChapterPool(clean_tree["children"][2]) = <<>>
    /\ IsResourcesBundle(transformed_tree["children"][1]["children"]
                            [Len(transformed_tree["children"][1]["children"])])

----------------------------------------------------------------------------
(* Properties of the skipped verticals *)

\* the visited verticals that are neither test, knowledge check, video nor
\* html
OtherVerticals ==
    {p \in VisitedVerticals(clean_tree) :
        guess_vertical_type(p[2]) \notin {"knowledge_check_vertical", "test_vertical",
                                          "video_vertical", "html_vertical"}}

\* C15 as stated: when the cleaned tree holds verticals of another
\* classification (the unrecognized one included) and every other vertical
\* can be transformed, transform_tree completes and the tree it returns has
\* no node of those verticals.
C15_OtherClassificationSkipped ==
    ( /\ pc \in {"transformed", "failed"}
      /\ clean_tree # NoTree
      /\ OtherVerticals # {}
      /\ \A p \in VisitedVerticals(clean_tree) \ OtherVerticals :
             TransformVertical(p[1], p[2]).ok )
    => /\ pc = "transformed"
       /\ \A p \in OtherVerticals : \A n \in SubNodes(transformed_tree) :
             n["title"] # p[2]["display_name"]

\* transform_tree met a vertical that the pruner kept and then emptied
C15_Witness ==
    /\ pc = "failed"
    /\ clean_tree # NoTree
    /\ error = "TypeError"
    /\ \E p \in OtherVerticals :
          guess_vertical_type(p[2]) = None /\ p[2]["children"] = <<>>

----------------------------------------------------------------------------
(* Properties of the source tree after transform_tree *)

\* the tree without the questions field of its problem nodes
RECURSIVE WithoutQuestions(_)
WithoutQuestions(n) ==
    LET m == IF n["kind"] = "problem" /\ "questions" \in DOMAIN n
             THEN DictDel(n, "questions") ELSE n
    IN  IF "children" \in DOMAIN m
        THEN DictSet(m, "children",
                     [i \in DOMAIN m["children"] |-> WithoutQuestions(m["children"][i])])
        ELSE m

\* the problem children of the verticals that become exercises
ExerciseProblems(tree) ==
    UNION {{p[2]["children"][i] : i \in {j \in DOMAIN p[2]["children"] :
                                           p[2]["children"][j]["kind"] = "problem"}} :
           p \in {q \in VisitedVerticals(tree) :
                    guess_vertical_type(q[2]) \in {"knowledge_check_vertical",
                                                   "test_vertical"}}}

----------------------------------------------------------------------------
(* Properties of extract_downloadable_resouces_from_html_item *)

\* the references of the item: the first frame's alone when there is a
\* frame, else those of the links, in document order
ItemHrefs ==
    LET frames == FindAll(course_data["content"], "iframe")
        links == FindAll(course_data["content"], "a")
    IN  IF frames # <<>> THEN <<frames[1].attrs["src"]>>
        ELSE [i \in DOMAIN links |-> links[i].attrs["href"]]

IsLocal(href) == href[1] = "/static"

\* C18 as stated: whatever references the item holds (another host, a file
\* missing under both names), at the first place or later, the extraction
\* completes and returns one resource per reference, in order.
C18_AnomalousLinkNonFatal ==
    pc \in {"resources_done", "failed"} =>
        /\ pc = "resources_done"
        /\ Len(transformed_tree.resources) = Len(ItemHrefs)
        /\ \A i \in DOMAIN ItemHrefs :
              transformed_tree.resources[i]["filename"] = Tail(ItemHrefs[i])

\* the extraction met a first reference to another host
C18_Witness ==
    /\ pc = "failed"
    /\ error = "UnboundLocalError"
    /\ ItemHrefs # <<>>
    /\ ~IsLocal(ItemHrefs[1])

----------------------------------------------------------------------------
(* Properties of cached *)

\* C19 as stated: a call of the wrapper never fails; on an entry that does
\* not read back as a stored pair it calls the wrapped function once and
\* returns its result without storing; on a miss or an expired entry it
\* calls once and stores the result with the current time; on an unexpired
\* entry it returns the stored result without calling.
C19_WrapperContract ==
    [][cache'.count = cache.count + 1 =>
          LET h == cache'.key
              fresh == WrappedF(h)
              called_once == cache'.calls = Append(cache.calls, h)
          IN  /\ pc' # "failed"
              /\ IF h \notin DOMAIN cache.store
                 THEN /\ called_once
                      /\ cache'.result = fresh
                      /\ cache'.store = DictSet(cache.store, h, Entry(fresh, cache.now))
                 ELSE IF cache.store[h].shape \in DamagedShapes
                 THEN called_once /\ cache'.result = fresh /\ cache'.store = cache.store
                 ELSE IF cache.now - cache.store[h].created > Expire
                 THEN /\ called_once
                      /\ cache'.result = fresh
                      /\ cache'.store = DictSet(cache.store, h, Entry(fresh, cache.now))
                 ELSE /\ cache'.calls = cache.calls
                      /\ cache'.result = cache.store[h].result
                      /\ cache'.store = cache.store]_vars

\* a call found an entry that reads back as a tuple of the wrong length or
\* does not unpickle
C19_Witness ==
    /\ pc = "failed"
    /\ error \in {"ValueError", "UnpicklingError"}
    /\ cache.key \in DOMAIN cache.store
    /\ cache.store[cache.key].shape \in {"triple", "garbled"}

----------------------------------------------------------------------------
(* Properties of parse_questions_from_problem *)

\* the children of the problem element, in file order
ProblemBody == original_tree["content"][1].children

\* the positions of the response elements in the order their questions are
\* listed: the single-select family, then the multiple-select family
ResponsePositions ==
    LET At(name) == SelectSeq([k \in DOMAIN ProblemBody |-> k],
                              LAMBDA k : ProblemBody[k].name = name)
    IN  At("multiplechoiceresponse") \o At("choiceresponse")

HasOwnSolution(k) ==
    k < Len(ProblemBody) /\ ProblemBody[k + 1].name = "solution"

IsBoilerplate(solution) ==
    \E de \in DROP_EXPLANATIONS : StrContains(de, solution.text)

\* C20 as stated: the hints of a question are the text of the solution
\* element that immediately follows its own response element, unless that
\* text holds a blocklisted phrase; a question without such a solution has
\* no hints, whatever the later questions have.
C20_HintsFromOwnSolutionOnly ==
    pc = "parsed" =>
        \A n \in DOMAIN ResponsePositions :
            LET k == ResponsePositions[n]
                hints == course_data["questions"][n]["hints"]
            IN  IF HasOwnSolution(k) /\ ~IsBoilerplate(ProblemBody[k + 1])
                THEN hints = <<Strip(SelectSeq(ProblemBody[k + 1].text,
                                               LAMBDA t : t # "Explanation"))>>
                ELSE hints = <<>>

\* a problem was parsed whose first question has no solution of its own
\* while a later question has one
C20_Witness ==
    /\ pc = "parsed"
    /\ \E n \in DOMAIN ResponsePositions :
          /\ ~HasOwnSolution(ResponsePositions[n])
          /\ \E j \in DOMAIN ProblemBody :
                /\ j > ResponsePositions[n] + 1
                /\ ProblemBody[j].name = "solution"
                /\ ~IsBoilerplate(ProblemBody[j])
          /\ course_data["questions"][n]["hints"] # <<>>

----------------------------------------------------------------------------
(* Properties of the question ids *)

\* C23 as stated: the questions extracted from one problem node have
\* pairwise distinct ids, also when the problem holds single-select and
\* multiple-select questions.
C23_QuestionIdsDistinct ==
    pc = "parsed" =>
        \A i, j \in DOMAIN course_data["questions"] :
            i # j => course_data["questions"][i]["id"] # course_data["questions"][j]["id"]

\* a problem with a single-select and a multiple-select question was
\* parsed
C23_Witness ==
    /\ pc = "parsed"
    /\ \E i, j \in DOMAIN course_data["questions"] :
          /\ course_data["questions"][i]["question_type"] = "single_selection"
          /\ course_data["questions"][j]["question_type"] = "multiple_selection"
          /\ course_data["questions"][i]["id"] = course_data["questions"][j]["id"]

----------------------------------------------------------------------------
(* Properties of the resources handed to make_html5zip_from_resources *)

\* the files packed into the bundles of the transformed tree
BundledFiles ==
    UNION {{n["files"][1]["path"].files[k] : k \in DOMAIN n["files"][1]["path"].files} :
           n \in {b \in SubNodes(transformed_tree) : IsResourcesBundle(b)}}

\* C22 as stated: no resource handed to make_html5zip_from_resources by
\* transform_tree has the PDF extension, whichever kind of vertical
\* contributed it.
C22_NoPdfInChapterBundle ==
    pc = "transformed" => \A f \in BundledFiles : ExtOf(f.filename) # "pdf"

\* a course was transformed in which a video vertical has an html child
\* with a PDF resource
C22_Witness ==
    /\ pc = "transformed"
    /\ \E p \in VisitedVerticals(clean_tree) :
          /\ guess_vertical_type(p[2]) = "video_vertical"
          /\ \E r \in {VerticalPool(p[2])[k] : k \in DOMAIN VerticalPool(p[2])} :
                /\ r["ext"] = "pdf"
                /\ [srcpath |-> r["relhref"], filename |-> r["filename"]] \in BundledFiles

----------------------------------------------------------------------------
(* Properties of the builder on reference graphs with cycles *)

LeafKinds == {TextNode, "wiki", "html", "video", "problem"}

\* the fragment files the container file at path refers to
ContainerRefs(dir, path) ==
    IF path \notin DOMAIN dir \/ path[3] # "xml" \/ path[1] \in LeafKinds
          \/ Len(dir[path]) # 1
    THEN {}
    ELSE LET els == dir[path][1].children
         IN  {PathOf(els[k].name, els[k].attrs["url_name"], "xml") :
                 k \in {n \in DOMAIN els : /\ els[n].name \notin LeafKinds
                                           /\ "url_name" \in DOMAIN els[n].attrs}}

\* the files reached from the files of `from` by following references
RECURSIVE ReachedFrom(_, _)
ReachedFrom(dir, from) ==
    LET more == from \cup UNION {ContainerRefs(dir, p) : p \in from}
    IN  IF more = from THEN from ELSE ReachedFrom(dir, more)

\* the file at path refers to itself, directly or through other files
RefersToItself(dir, path) == path \in ReachedFrom(dir, ContainerRefs(dir, path))

RefersToItselfDirectly(dir, path) == path \in ContainerRefs(dir, path)

\* the files extract_course_tree starts from
RootPaths == {PathOf("course", "course", "xml"), PathOf(NoKind, "course", "xml")}

\* the errors the builder's own statements raise
BuilderErrors ==
    {"ValueError: XML file not found", "ValueError: HTML file not found",
     "ValueError: Video XML file not found", "AssertionError", "KeyError"}

\* C21: tree building ends by itself on every reference graph, also one
\* where a container fragment refers to itself directly or through others:
\* when extract_course_tree has ended it has returned a tree or failed
\* through a statement of the builder (a missing or malformed file, or a
\* guard on the depth or on the fragments already visited), and it has never
\* nested calls until the interpreter's call stack ran out.
C21_BuilderEndsByItself ==
    pc \in {"extracted", "failed"} =>
        /\ error # "RecursionError"
        /\ pc = "failed" => error \in BuilderErrors

\* a vertical that refers to itself has been handed to the builder, which
\* nested calls until the call stack ran out
C21_Witness ==
    /\ pc = "failed"
    /\ error = "RecursionError"
    /\ RefersToItselfDirectly(coursedir, PathOf("vertical", "v1", "xml"))
    /\ PathOf("vertical", "v1", "xml") \in ReachedFrom(coursedir, RootPaths)

====
